---- MODULE Spec2Model ----
(***************************************************************************)
(* Model of the page-recomposition engine of presoprint (src/app.py):      *)
(* process_pdf_file and the functions it calls.                            *)
(*                                                                         *)
(* Numbers.  The program computes with Python floats.  The model computes  *)
(* with exact rationals <<n, d>> (d > 0, lowest terms); the formatting of  *)
(* a number into a content stream (f"{x:.4f}", f"{x:.6f}") is modelled as  *)
(* rounding to that many decimals, ties to even.                           *)
(***************************************************************************)
EXTENDS Integers, Naturals, Sequences, FiniteSets, TLC

VARIABLES
    pc,             \* position in process_pdf_file
    args,           \* the arguments of the call
    pages,          \* pdf.pages of the opened document
    trim_height_in, \* the derived trim height (inches), or NoValue
    i,              \* index of the per-page loop
    pages_info,     \* the list of per-page results
    saved,          \* the document persisted at output_path (<<>>: none)
    trail,          \* the steps taken so far, in order
    verification,   \* the verification list
    err,            \* the exception that ended the run, or "none"
    bgPage,         \* detect_background_color: the page given
    bgResult,       \* detect_background_color: the value returned, or NoValue
    markBox,        \* build_trim_marks_stream: <<trim_x, trim_y, trim_w, trim_h>>
    markStream,     \* build_trim_marks_stream: the stream returned, or NoValue
    f64Call,        \* the margin check in binary64: orig_w, orig_h, trim width, margins
    f64Height,      \* the margin check in binary64: trim_height_in, or NoValue
    f64Safe         \* the margin check in binary64: safe_w, safe_h, raises, or NoValue

vars == <<pc, args, pages, trim_height_in, i, pages_info, saved, trail,
          verification, err, bgPage, bgResult, markBox, markStream,
          f64Call, f64Height, f64Safe>>

runVars == <<pc, args, pages, trim_height_in, i, pages_info, saved, trail,
             verification, err>>

bgVars == <<bgPage, bgResult>>

markVars == <<markBox, markStream>>

f64Vars == <<f64Call, f64Height, f64Safe>>

\* the variables of the functions exercised on their own
unitVars == <<bgVars, markVars, f64Vars>>

NoValue == <<>>

----------------------------------------------------------------------------
(* Exact rational arithmetic standing for the float arithmetic.            *)

Abs(n) == IF n < 0 THEN -n ELSE n

Max(a, b) == IF a >= b THEN a ELSE b

Min(a, b) == IF a <= b THEN a ELSE b

RECURSIVE GCD(_, _)
GCD(a, b) == IF b = 0 THEN a ELSE GCD(b, a % b)

Rat(n, d) ==
    LET s == IF d < 0 THEN -1 ELSE 1
        g == GCD(Abs(n), Abs(d))
    IN  <<(s * n) \div g, (s * d) \div g>>

RInt(k) == <<k, 1>>

RAdd(a, b) ==
    LET g == GCD(a[2], b[2])
    IN  Rat(a[1] * (b[2] \div g) + b[1] * (a[2] \div g), (a[2] \div g) * b[2])

RNeg(a) == <<-a[1], a[2]>>

RSub(a, b) == RAdd(a, RNeg(b))

RMul(a, b) ==
    LET g1 == GCD(Abs(a[1]), b[2])
        g2 == GCD(Abs(b[1]), a[2])
    IN  Rat((a[1] \div g1) * (b[1] \div g2), (a[2] \div g2) * (b[2] \div g1))

\* a / b; the caller never divides by zero (ZeroDivisionError is not modelled)
RDiv(a, b) == RMul(a, Rat(b[2], b[1]))

RLt(a, b) == RSub(a, b)[1] < 0

RLe(a, b) == RSub(a, b)[1] <= 0

RAbs(a) == <<Abs(a[1]), a[2]>>

RMin(a, b) == IF RLe(a, b) THEN a ELSE b

R0 == RInt(0)

R1 == RInt(1)

RHalf(a) == RDiv(a, RInt(2))

RECURSIVE Pow10(_)
Pow10(k) == IF k = 0 THEN 1 ELSE 10 * Pow10(k - 1)

\* the first k decimals of rem/d (0 <= rem < d) by long division:
\* <<digits as an integer, remainder>>
RECURSIVE LongDiv(_, _, _, _)
LongDiv(rem, d, k, acc) ==
    IF k = 0 THEN <<acc, rem>>
    ELSE LongDiv((rem * 10) % d, d, k - 1, acc * 10 + ((rem * 10) \div d))

\* f"{x:.kf}": x rounded to k decimals, ties to even, as a number
Fmt(x, k) ==
    LET n  == Abs(x[1])
        d  == x[2]
        ld == LongDiv(n % d, d, k, 0)
        lo == (n \div d) * Pow10(k) + ld[1]
        up == IF 2 * ld[2] > d THEN 1
              ELSE IF 2 * ld[2] = d /\ lo % 2 = 1 THEN 1 ELSE 0
        m  == lo + up
    IN  Rat(IF x[1] < 0 THEN -m ELSE m, Pow10(k))

Fmt4(x) == Fmt(x, 4)

Fmt6(x) == Fmt(x, 6)

----------------------------------------------------------------------------
(* Program constants (src/app.py:25-38).                                   *)

PTS_PER_INCH == 72

MARK_OFFSET == 3

MARK_LENGTH == 18

\* WHITE_WEIGHT = 1.0, BLACK_WEIGHT = 0.75
WHITE_WEIGHT == Rat(1, 1)

BLACK_WEIGHT == Rat(3, 4)

\* text[:3000] in detect_background_color
EarlyLen == 3000

Pts(inches) == RMul(inches, RInt(PTS_PER_INCH))

----------------------------------------------------------------------------
(* Page content.  A source stream is the text  x^pad ++ tail : pad filler  *)
(* characters that belong to no pattern of the sampler, followed by the    *)
(* characters of tail; ok = FALSE is a stream whose read_bytes() raises.   *)

Text(pad, tail) == [pad |-> pad, tail |-> tail, ok |-> TRUE]

EmptyText == Text(0, <<>>)

\* raw += ref.read_bytes() + b"\n" over the streams of a /Contents array;
\* only the first stream of an array carries filler
RECURSIVE JoinStreams(_)
JoinStreams(ss) ==
    IF ss = <<>> THEN EmptyText
    ELSE LET rest == JoinStreams(Tail(ss))
         IN  [pad  |-> Head(ss).pad,
              tail |-> Head(ss).tail \o <<"\n">> \o rest.tail,
              ok   |-> Head(ss).ok /\ rest.ok]

\* the bytes read from a page's /Contents (a stream or an array of streams)
ReadContents(c) ==
    IF c.kind = "array" THEN JoinStreams(c.raw) ELSE c.raw[1]

----------------------------------------------------------------------------
(* detect_background_color (src/app.py:56-84).                             *)

Digits == {"0", "1", "2", "3", "4", "5", "6", "7", "8", "9"}

DigitVal(c) ==
    CASE c = "0" -> 0 [] c = "1" -> 1 [] c = "2" -> 2 [] c = "3" -> 3
      [] c = "4" -> 4 [] c = "5" -> 5 [] c = "6" -> 6 [] c = "7" -> 7
      [] c = "8" -> 8 [] c = "9" -> 9

\* [\d.]
IsNumCh(c) == c \in Digits \cup {"."}

\* \s
IsSpaceCh(c) == c \in {" ", "\n", "\t", "\r"}

\* \w, over the characters the model's texts use
IsWordCh(c) == c \in Digits \cup {"r", "g", "s", "c", "n", "f", "e", "q", "R", "G", "x", "_"}

\* greedy [\d.]+ from position p: the position after the run (p: no run)
RECURSIVE NumRunEnd(_, _)
NumRunEnd(s, p) ==
    IF p <= Len(s) /\ IsNumCh(s[p]) THEN NumRunEnd(s, p + 1) ELSE p

\* greedy \s+ from position p: the position after the run (p: no run)
RECURSIVE SpaceRunEnd(_, _)
SpaceRunEnd(s, p) ==
    IF p <= Len(s) /\ IsSpaceCh(s[p]) THEN SpaceRunEnd(s, p + 1) ELSE p

\* k times ([\d.]+)\s+ from position p: [ok, groups, next]
RECURSIVE MatchNums(_, _, _)
MatchNums(s, p, k) ==
    IF k = 0 THEN [ok |-> TRUE, groups |-> <<>>, next |-> p]
    ELSE LET e == NumRunEnd(s, p)
             w == SpaceRunEnd(s, e)
         IN  IF e = p \/ w = e
             THEN [ok |-> FALSE, groups |-> <<>>, next |-> p]
             ELSE LET m == MatchNums(s, w, k - 1)
                  IN  [ok     |-> m.ok,
                       groups |-> <<SubSeq(s, p, e - 1)>> \o m.groups,
                       next   |-> m.next]

LitAt(s, p, lit) ==
    /\ p + Len(lit) - 1 <= Len(s)
    /\ SubSeq(s, p, p + Len(lit) - 1) = lit

\* \b after a word character that ends at position p - 1
BoundaryAt(s, p) == p > Len(s) \/ ~IsWordCh(s[p])

\* the pattern (k numbers, then lit, then \b when wordEnd) tried at position p
MatchAt(s, p, k, lit, wordEnd) ==
    LET m == MatchNums(s, p, k)
    IN  IF /\ m.ok
           /\ LitAt(s, m.next, lit)
           /\ (wordEnd => BoundaryAt(s, m.next + Len(lit)))
        THEN [ok |-> TRUE, groups |-> m.groups]
        ELSE [ok |-> FALSE, groups |-> <<>>]

\* re.search: the match at the leftmost position that has one
RECURSIVE ReSearch(_, _, _, _, _)
ReSearch(s, p, k, lit, wordEnd) ==
    IF p > Len(s) THEN [ok |-> FALSE, groups |-> <<>>]
    ELSE LET m == MatchAt(s, p, k, lit, wordEnd)
         IN  IF m.ok THEN m ELSE ReSearch(s, p + 1, k, lit, wordEnd)

\* float(): accepts digits with at most one point and at least one digit
FloatOk(cs) ==
    /\ \E k \in 1..Len(cs) : cs[k] \in Digits
    /\ Cardinality({k \in 1..Len(cs) : cs[k] = "."}) <= 1

RECURSIVE DigitsVal(_, _)
DigitsVal(cs, acc) ==
    IF cs = <<>> THEN acc
    ELSE DigitsVal(Tail(cs), IF Head(cs) = "." THEN acc ELSE acc * 10 + DigitVal(Head(cs)))

FloatVal(cs) ==
    LET dots == {k \in 1..Len(cs) : cs[k] = "."}
        frac == IF dots = {} THEN 0 ELSE Len(cs) - (CHOOSE k \in dots : TRUE)
    IN  Rat(DigitsVal(cs, 0), Pow10(frac))

White == <<R1, R1, R1>>

\* early = text[:3000]; the filler matches nothing, so the search runs on
\* the characters of tail that lie in the window
Early(t) == SubSeq(t.tail, 1, Max(0, Min(Len(t.tail), EarlyLen - t.pad)))

\* the groups of a match converted by float(); a float() that raises ends in
\* the except clause and so in the final return, like no match at all
MatchColor(m) ==
    IF ~m.ok THEN White
    ELSE IF \E k \in 1..Len(m.groups) : ~FloatOk(m.groups[k]) THEN White
    ELSE IF Len(m.groups) = 3
         THEN <<FloatVal(m.groups[1]), FloatVal(m.groups[2]), FloatVal(m.groups[3])>>
         ELSE <<FloatVal(m.groups[1]), FloatVal(m.groups[1]), FloatVal(m.groups[1])>>

\* the result of the first of three searches that matched, in the order of
\* the three if-statements
FirstMatch(m1, m2, m3) == IF m1.ok THEN m1 ELSE IF m2.ok THEN m2 ELSE m3

\* the sampler trying the three patterns in the opposite order
SampleEarly_GrayFirst(early) ==
    MatchColor(FirstMatch(ReSearch(early, 1, 1, <<"g">>, TRUE),
                          ReSearch(early, 1, 3, <<"s", "c">>, FALSE),
                          ReSearch(early, 1, 3, <<"r", "g">>, FALSE)))

\* the three re.search calls: rg, then sc / scn (the optional n changes no
\* group), then g followed by a word boundary
SampleEarly(early) ==
    MatchColor(FirstMatch(ReSearch(early, 1, 3, <<"r", "g">>, FALSE),
                          ReSearch(early, 1, 3, <<"s", "c">>, FALSE),
                          ReSearch(early, 1, 1, <<"g">>, TRUE)))

detect_background_color(page) ==
    IF page.contents.kind = "none" THEN White
    ELSE LET raw == ReadContents(page.contents)
         IN  IF ~raw.ok THEN White ELSE SampleEarly(Early(raw))

----------------------------------------------------------------------------
(* Pages.  A box is a 4-tuple of numbers; an absent entry is <<>>; rotate  *)
(* is <<>> (no /Rotate) or <<degrees>>.  contents is                        *)
(*   [kind |-> "none" | "stream" | "array", raw |-> source texts,           *)
(*    ops |-> drawing operators written by this program].                   *)
(* id is the page's position in the input file (0: the synthesized blank).  *)

None == <<>>

Box(x0, y0, x1, y1) == <<x0, y0, x1, y1>>

BoxI(x0, y0, x1, y1) == <<RInt(x0), RInt(y0), RInt(x1), RInt(y1)>>

Op(name, a) == [op |-> name, a |-> a]

NoForm == [data |-> EmptyText, bbox |-> None, resources |-> 0, matrix |-> None]

\* a source page's /Resources: its own table, named by the page it came with
OrigResources(id) == [kind |-> "orig", id |-> id, form |-> NoForm, shading |-> FALSE]

NoResources == [kind |-> "none", id |-> 0, form |-> NoForm, shading |-> FALSE]

\* page.mediabox, x0, y0, width, height
get_page_dimensions(page) ==
    LET m == page.mediabox
    IN  <<m[1], m[2], RSub(m[3], m[1]), RSub(m[4], m[2])>>

\* int(page.obj.get(Name.Rotate, 0)) % 360
Rotation(page) == IF page.rotate = None THEN 0 ELSE page.rotate[1] % 360

\* orig_w, orig_h after the swap for rotation 90 / 270
EffectiveDims(page) ==
    LET d == get_page_dimensions(page)
    IN  IF Rotation(page) \in {90, 270} THEN <<d[4], d[3]>> ELSE <<d[3], d[4]>>

\* compute_trim_height (src/app.py:142-156): no check of safe_w
compute_trim_height(orig_w, orig_h, trim_width_in, margins) ==
    LET trim_w_pt == Pts(trim_width_in)
        ml == Pts(margins.left)
        mr == Pts(margins.right)
        mt == Pts(margins.top)
        mb == Pts(margins.bottom)
        safe_w == RSub(RSub(trim_w_pt, ml), mr)
        scale == RDiv(safe_w, orig_w)
        scaled_h == RMul(orig_h, scale)
        trim_h_pt == RAdd(RAdd(scaled_h, mt), mb)
    IN  RDiv(trim_h_pt, RInt(PTS_PER_INCH))

\* a pass whose marks run from each corner into the trim rectangle
MarkPass_Inward(trim_x, trim_y, trim_w, trim_h) ==
    LET corners == << <<trim_x, trim_y, 1, 1>>,
                      <<RAdd(trim_x, trim_w), trim_y, -1, 1>>,
                      <<RAdd(trim_x, trim_w), RAdd(trim_y, trim_h), -1, -1>>,
                      <<trim_x, RAdd(trim_y, trim_h), 1, -1>> >>
        H(c) == Op("seg", <<Fmt4(RAdd(c[1], RInt(MARK_OFFSET * c[3]))), Fmt4(c[2]),
                            Fmt4(RAdd(c[1], RInt((MARK_OFFSET + MARK_LENGTH) * c[3]))), Fmt4(c[2])>>)
        V(c) == Op("seg", <<Fmt4(c[1]), Fmt4(RAdd(c[2], RInt(MARK_OFFSET * c[4]))),
                            Fmt4(c[1]), Fmt4(RAdd(c[2], RInt((MARK_OFFSET + MARK_LENGTH) * c[4])))>>)
    IN  <<H(corners[1]), V(corners[1]), H(corners[2]), V(corners[2]),
          H(corners[3]), V(corners[3]), H(corners[4]), V(corners[4])>>

\* one pass of build_trim_marks_stream over the four corners: per corner a
\* horizontal and a vertical "x y m x y l S" line, operands formatted .4f
MarkPass(trim_x, trim_y, trim_w, trim_h) ==
    LET corners == << <<trim_x, trim_y, -1, -1>>,
                      <<RAdd(trim_x, trim_w), trim_y, 1, -1>>,
                      <<RAdd(trim_x, trim_w), RAdd(trim_y, trim_h), 1, 1>>,
                      <<trim_x, RAdd(trim_y, trim_h), -1, 1>> >>
        H(c) == Op("seg", <<Fmt4(RAdd(c[1], RInt(MARK_OFFSET * c[3]))), Fmt4(c[2]),
                            Fmt4(RAdd(c[1], RInt((MARK_OFFSET + MARK_LENGTH) * c[3]))), Fmt4(c[2])>>)
        V(c) == Op("seg", <<Fmt4(c[1]), Fmt4(RAdd(c[2], RInt(MARK_OFFSET * c[4]))),
                            Fmt4(c[1]), Fmt4(RAdd(c[2], RInt((MARK_OFFSET + MARK_LENGTH) * c[4])))>>)
    IN  <<H(corners[1]), V(corners[1]), H(corners[2]), V(corners[2]),
          H(corners[3]), V(corners[3]), H(corners[4]), V(corners[4])>>

\* build_trim_marks_stream (src/app.py:87-118)
build_trim_marks_stream(trim_x, trim_y, trim_w, trim_h) ==
    <<Op("q", <<>>)>>
    \o <<Op("w", <<WHITE_WEIGHT>>), Op("RG", <<R1, R1, R1>>), Op("J", <<RInt(2)>>)>>
    \o MarkPass(trim_x, trim_y, trim_w, trim_h)
    \o <<Op("w", <<BLACK_WEIGHT>>), Op("RG", <<R0, R0, R0>>), Op("J", <<RInt(2)>>)>>
    \o MarkPass(trim_x, trim_y, trim_w, trim_h)
    \o <<Op("Q", <<>>)>>

\* the geometry with the scale fitted to the width alone
Layout_FitWidth(page, trim_width_in, trim_h_in, bleed_in, margins) ==
    LET bleed == Pts(bleed_in)
        trim_w == Pts(trim_width_in)
        trim_h == Pts(trim_h_in)
        dims == EffectiveDims(page)
        orig_w == dims[1]
        orig_h == dims[2]
        ml == Pts(margins.left)
        mr == Pts(margins.right)
        mt == Pts(margins.top)
        mb == Pts(margins.bottom)
        safe_w == RSub(RSub(trim_w, ml), mr)
        safe_h == RSub(RSub(trim_h, mt), mb)
        raises == RLe(safe_w, R0) \/ RLe(safe_h, R0)
        scale == IF raises THEN R0 ELSE RDiv(safe_w, orig_w)
        scaled_w == RMul(orig_w, scale)
        scaled_h == RMul(orig_h, scale)
        safe_x0 == RAdd(bleed, ml)
        safe_y0 == RAdd(bleed, mb)
    IN  [bleed |-> bleed, trim_w |-> trim_w, trim_h |-> trim_h,
         media_w |-> RAdd(trim_w, RMul(RInt(2), bleed)),
         media_h |-> RAdd(trim_h, RMul(RInt(2), bleed)),
         orig_w |-> orig_w, orig_h |-> orig_h,
         safe_w |-> safe_w, safe_h |-> safe_h, raises |-> raises,
         scale |-> scale, scaled_w |-> scaled_w, scaled_h |-> scaled_h,
         safe_x0 |-> safe_x0, safe_y0 |-> safe_y0,
         x_off |-> RAdd(safe_x0, RHalf(RSub(safe_w, scaled_w))),
         y_off |-> RAdd(safe_y0, RHalf(RSub(safe_h, scaled_h)))]

\* the geometry computed at the head of process_page (src/app.py:169-199)
Layout(page, trim_width_in, trim_h_in, bleed_in, margins) ==
    LET bleed == Pts(bleed_in)
        trim_w == Pts(trim_width_in)
        trim_h == Pts(trim_h_in)
        dims == EffectiveDims(page)
        orig_w == dims[1]
        orig_h == dims[2]
        ml == Pts(margins.left)
        mr == Pts(margins.right)
        mt == Pts(margins.top)
        mb == Pts(margins.bottom)
        safe_w == RSub(RSub(trim_w, ml), mr)
        safe_h == RSub(RSub(trim_h, mt), mb)
        raises == RLe(safe_w, R0) \/ RLe(safe_h, R0)
        scale == IF raises THEN R0
                 ELSE RMin(RDiv(safe_w, orig_w), RDiv(safe_h, orig_h))
        scaled_w == RMul(orig_w, scale)
        scaled_h == RMul(orig_h, scale)
        safe_x0 == RAdd(bleed, ml)
        safe_y0 == RAdd(bleed, mb)
    IN  [bleed |-> bleed, trim_w |-> trim_w, trim_h |-> trim_h,
         media_w |-> RAdd(trim_w, RMul(RInt(2), bleed)),
         media_h |-> RAdd(trim_h, RMul(RInt(2), bleed)),
         orig_w |-> orig_w, orig_h |-> orig_h,
         safe_w |-> safe_w, safe_h |-> safe_h, raises |-> raises,
         scale |-> scale, scaled_w |-> scaled_w, scaled_h |-> scaled_h,
         safe_x0 |-> safe_x0, safe_y0 |-> safe_y0,
         x_off |-> RAdd(safe_x0, RHalf(RSub(safe_w, scaled_w))),
         y_off |-> RAdd(safe_y0, RHalf(RSub(safe_h, scaled_h)))]

----------------------------------------------------------------------------
(* process_page (src/app.py:159-301).                                      *)

\* the flip matrix with the two translations exchanged
FlipCm_Swapped(media_w, media_h) ==
    Op("cm", <<RInt(-1), R0, R0, RInt(-1), Fmt4(media_h), Fmt4(media_w)>>)

\* "-1 0 0 -1 {media_w:.4f} {media_h:.4f} cm"
FlipCm(media_w, media_h) ==
    Op("cm", <<RInt(-1), R0, R0, RInt(-1), Fmt4(media_w), Fmt4(media_h)>>)

\* the Form XObject wrapping the original content (src/app.py:204-225);
\* orig_w, orig_h are the values after the rotation swap
FormXObject(page, L) ==
    LET d == get_page_dimensions(page)
    IN  [data      |-> IF page.contents.kind = "none" THEN EmptyText
                       ELSE ReadContents(page.contents),
         bbox      |-> Box(d[1], d[2], RAdd(d[1], L.orig_w), RAdd(d[2], L.orig_h)),
         resources |-> page.resources.id,
         matrix    |-> <<R1, R0, R0, R1, RNeg(d[1]), RNeg(d[2])>>]

\* the resolved background colour r, g, b (src/app.py:201-202, 255-257)
BackgroundRGB(page, bg_style) ==
    IF bg_style = "blue_gradient"
    THEN <<Rat(4, 100), Rat(6, 100), Rat(14, 100)>>
    ELSE detect_background_color(page)

\* the background drawn first (src/app.py:245-258): the gradient clipped to
\* the page, or the sampled colour filled over it
BackgroundOps(rgb, mw, mh, bg_style) ==
    IF bg_style = "blue_gradient"
    THEN <<Op("q", <<>>), Op("re W n", <<R0, R0, mw, mh>>),
           Op("sh", <<>>), Op("Q", <<>>)>>
    ELSE <<Op("q", <<>>), Op("rg", <<Fmt6(rgb[1]), Fmt6(rgb[2]), Fmt6(rgb[3])>>),
           Op("re f", <<R0, R0, mw, mh>>), Op("Q", <<>>)>>

\* a content stream that draws the crop marks before the placement's
\* graphics state is restored
ComposedOps_MarksInside(page, L, bg_style, flip) ==
    (IF flip THEN <<Op("q", <<>>), FlipCm(L.media_w, L.media_h)>> ELSE <<>>)
    \o BackgroundOps(BackgroundRGB(page, bg_style),
                     Fmt4(L.media_w), Fmt4(L.media_h), bg_style)
    \o <<Op("q", <<>>),
         Op("cm", <<Fmt6(L.scale), R0, R0, Fmt6(L.scale), Fmt4(L.x_off), Fmt4(L.y_off)>>),
         Op("Do", <<>>)>>
    \o build_trim_marks_stream(L.bleed, L.bleed, L.trim_w, L.trim_h)
    \o <<Op("Q", <<>>)>>
    \o (IF flip THEN <<Op("Q", <<>>)>> ELSE <<>>)

\* the new content stream (src/app.py:236-275)
ComposedOps(page, L, bg_style, flip) ==
    (IF flip THEN <<Op("q", <<>>), FlipCm(L.media_w, L.media_h)>> ELSE <<>>)
    \o BackgroundOps(BackgroundRGB(page, bg_style),
                     Fmt4(L.media_w), Fmt4(L.media_h), bg_style)
    \o <<Op("q", <<>>),
         Op("cm", <<Fmt6(L.scale), R0, R0, Fmt6(L.scale), Fmt4(L.x_off), Fmt4(L.y_off)>>),
         Op("Do", <<>>), Op("Q", <<>>)>>
    \o build_trim_marks_stream(L.bleed, L.bleed, L.trim_w, L.trim_h)
    \o (IF flip THEN <<Op("Q", <<>>)>> ELSE <<>>)

InchPair(w, h, k) == <<Fmt(RDiv(w, RInt(72)), k), Fmt(RDiv(h, RInt(72)), k)>>

\* ComposedPage with the TrimBox's upper corner set without the bleed offset
ComposedPage_TrimNoBleed(page, L, bg_style, flip) ==
    [page EXCEPT
        !.contents  = [kind |-> "stream", raw |-> <<>>,
                       ops |-> ComposedOps(page, L, bg_style, flip)],
        !.resources = [kind |-> "composed", id |-> 0,
                       form |-> FormXObject(page, L),
                       shading |-> (bg_style = "blue_gradient")],
        !.mediabox  = Box(R0, R0, L.media_w, L.media_h),
        !.trimbox   = Box(L.bleed, L.bleed, L.trim_w, L.trim_h),
        !.bleedbox  = Box(R0, R0, L.media_w, L.media_h),
        !.cropbox   = None,
        !.rotate    = None]

\* ComposedPage that leaves the CropBox and Rotate entries in place
ComposedPage_KeepRotate(page, L, bg_style, flip) ==
    [page EXCEPT
        !.contents  = [kind |-> "stream", raw |-> <<>>,
                       ops |-> ComposedOps(page, L, bg_style, flip)],
        !.resources = [kind |-> "composed", id |-> 0,
                       form |-> FormXObject(page, L),
                       shading |-> (bg_style = "blue_gradient")],
        !.mediabox  = Box(R0, R0, L.media_w, L.media_h),
        !.trimbox   = Box(L.bleed, L.bleed, RAdd(L.bleed, L.trim_w), RAdd(L.bleed, L.trim_h)),
        !.bleedbox  = Box(R0, R0, L.media_w, L.media_h)]

\* the page after the assignments of src/app.py:278-289
ComposedPage(page, L, bg_style, flip) ==
    [page EXCEPT
        !.contents  = [kind |-> "stream", raw |-> <<>>,
                       ops |-> ComposedOps(page, L, bg_style, flip)],
        !.resources = [kind |-> "composed", id |-> 0,
                       form |-> FormXObject(page, L),
                       shading |-> (bg_style = "blue_gradient")],
        !.mediabox  = Box(R0, R0, L.media_w, L.media_h),
        !.trimbox   = Box(L.bleed, L.bleed, RAdd(L.bleed, L.trim_w), RAdd(L.bleed, L.trim_h)),
        !.bleedbox  = Box(R0, R0, L.media_w, L.media_h),
        !.cropbox   = None,
        !.rotate    = None]

\* the operands of f"rgb({r:.2f}, {g:.2f}, {b:.2f})"
RoundedColor(rgb) == <<Fmt(rgb[1], 2), Fmt(rgb[2], 2), Fmt(rgb[3], 2)>>

\* the dictionary returned (src/app.py:291-301); is_blank = FALSE stands for
\* the key being absent from it
PageInfo(page, page_index, L, bg_style, flip) ==
    [page             |-> page_index + 1,
     original_size    |-> InchPair(L.orig_w, L.orig_h, 3),
     trim_size        |-> InchPair(L.trim_w, L.trim_h, 4),
     media_size       |-> InchPair(L.media_w, L.media_h, 4),
     safe_area        |-> InchPair(L.safe_w, L.safe_h, 4),
     scale_factor     |-> Fmt6(L.scale),
     flipped          |-> flip,
     background_color |-> IF bg_style = "blue_gradient" THEN <<>>
                          ELSE RoundedColor(BackgroundRGB(page, bg_style)),
     is_blank         |-> FALSE]

\* the work of process_page on the geometry L
Composed(page, page_index, L, bg_style, flip) ==
    IF L.raises
    THEN [raises |-> TRUE, page |-> page, info |-> <<>>]
    ELSE [raises |-> FALSE,
          page   |-> ComposedPage(page, L, bg_style, flip),
          info   |-> PageInfo(page, page_index, L, bg_style, flip)]

\* process_page: [raises, page, info]; when it raises the page is untouched
process_page(page, page_index, trim_width_in, trim_h_in, bleed_in, margins, bg_style, flip) ==
    Composed(page, page_index,
             Layout(page, trim_width_in, trim_h_in, bleed_in, margins),
             bg_style, flip)

----------------------------------------------------------------------------
(* add_blank_page (src/app.py:304-339) and _flip_existing_page (533-560).  *)

BlankPage(trim_width_in, trim_h_in, bleed_in) ==
    LET bleed == Pts(bleed_in)
        trim_w == Pts(trim_width_in)
        trim_h == Pts(trim_h_in)
        media_w == RAdd(trim_w, RMul(RInt(2), bleed))
        media_h == RAdd(trim_h, RMul(RInt(2), bleed))
    IN  [id        |-> 0,
         mediabox  |-> Box(R0, R0, media_w, media_h),
         trimbox   |-> Box(bleed, bleed, RAdd(bleed, trim_w), RAdd(bleed, trim_h)),
         bleedbox  |-> Box(R0, R0, media_w, media_h),
         cropbox   |-> None,
         rotate    |-> None,
         contents  |-> [kind |-> "stream", raw |-> <<>>,
                        ops |-> <<Op("q", <<>>), Op("rg", <<R1, R1, R1>>),
                                  Op("re f", <<R0, R0, Fmt4(media_w), Fmt4(media_h)>>),
                                  Op("Q", <<>>)>>
                                \o build_trim_marks_stream(bleed, bleed, trim_w, trim_h)],
         resources |-> NoResources]

\* pdf.pages.insert(insert_at, blank_page)
add_blank_page(pdfPages, trim_width_in, trim_h_in, bleed_in, insert_at) ==
    LET at == Min(insert_at, Len(pdfPages))
    IN  SubSeq(pdfPages, 1, at)
        \o <<BlankPage(trim_width_in, trim_h_in, bleed_in)>>
        \o SubSeq(pdfPages, at + 1, Len(pdfPages))

\* the page with its content wrapped in q / flip matrix / Q; no box changes
flip_existing_page(page, trim_width_in, trim_h_in, bleed_in) ==
    LET bleed == Pts(bleed_in)
        media_w == RAdd(Pts(trim_width_in), RMul(RInt(2), bleed))
        media_h == RAdd(Pts(trim_h_in), RMul(RInt(2), bleed))
        existing == IF page.contents.kind = "none" THEN <<>> ELSE page.contents.ops
    IN  [page EXCEPT !.contents =
            [kind |-> "stream", raw |-> <<>>,
             ops |-> <<Op("q", <<>>), FlipCm(media_w, media_h)>> \o existing \o <<Op("Q", <<>>)>>]]

----------------------------------------------------------------------------
(* verify_page (src/app.py:401-436).                                       *)

Tol2 == Rat(1, 100)

Tol3 == Rat(1, 1000)

Within(a, b, tol) == RLt(RAbs(RSub(a, b)), tol)

verify_page(page, trim_width_in, trim_h_in, bleed_in) ==
    LET bleed == Pts(bleed_in)
        mbox == page.mediabox
        tbox == IF page.trimbox = None THEN page.mediabox ELSE page.trimbox
        media_w == RSub(mbox[3], mbox[1])
        media_h == RSub(mbox[4], mbox[2])
        trim_w == RSub(tbox[3], tbox[1])
        trim_h == RSub(tbox[4], tbox[2])
        bleed_l == RSub(tbox[1], mbox[1])
        bleed_r == RSub(mbox[3], tbox[3])
        bleed_b == RSub(tbox[2], mbox[2])
        bleed_t == RSub(mbox[4], tbox[4])
        In(x) == RDiv(x, RInt(72))
        C(label, ok) == [label |-> label, pass |-> ok]
    IN  <<C("Trim width", Within(In(trim_w), trim_width_in, Tol2)),
          C("Trim height", Within(In(trim_h), trim_h_in, Tol2)),
          C("Bleed Left", Within(In(bleed_l), bleed_in, Tol3)),
          C("Bleed Right", Within(In(bleed_r), bleed_in, Tol3)),
          C("Bleed Top", Within(In(bleed_t), bleed_in, Tol3)),
          C("Bleed Bottom", Within(In(bleed_b), bleed_in, Tol3)),
          C("MediaBox width correct",
            Within(RSub(media_w, trim_w), RMul(RInt(2), bleed), Tol2)),
          C("MediaBox height correct",
            Within(RSub(media_h, trim_h), RMul(RInt(2), bleed), Tol2)),
          C("TrimBox present", page.trimbox # None),
          C("BleedBox present", page.bleedbox # None)>>

----------------------------------------------------------------------------
(* The inputs the model draws from.                                        *)

MaxPages == 2

\* "0.5 0.5 0.5 rg\n0 0 100 100 re f"
TextRgFill ==
    <<"0", ".", "5", " ", "0", ".", "5", " ", "0", ".", "5", " ", "r", "g", "\n",
      "0", " ", "0", " ", "1", "0", "0", " ", "1", "0", "0", " ", "r", "e", " ", "f">>

\* ".2 g"
TextGray == <<".", "2", " ", "g">>

\* "q"
TextQ == <<"q">>

SourcePage(mbox, rot, crop, trim, contents) ==
    [id |-> 0, mediabox |-> mbox, trimbox |-> trim, bleedbox |-> None,
     cropbox |-> crop, rotate |-> rot, contents |-> contents,
     resources |-> NoResources]

\* the kinds of source page: landscape at the origin; offset origin with a
\* CropBox and a /Contents array; rotated 90 with a TrimBox and no /Contents
PageKind(k) ==
    CASE k = 1 -> SourcePage(BoxI(0, 0, 720, 405), None, None, None,
                     [kind |-> "stream", raw |-> <<Text(0, TextRgFill)>>, ops |-> <<>>])
      [] k = 2 -> SourcePage(BoxI(10, 20, 110, 70), <<0>>, BoxI(10, 20, 100, 60), None,
                     [kind |-> "array", raw |-> <<Text(0, TextGray), Text(0, TextQ)>>, ops |-> <<>>])
      [] k = 3 -> SourcePage(BoxI(0, 0, 200, 500), <<90>>, None, BoxI(5, 5, 195, 495),
                     [kind |-> "none", raw |-> <<>>, ops |-> <<>>])

PageKinds == 1..3

\* the documents: every sequence of 1..MaxPages pages; page k of the file
\* has id k and its own resource table
Document(kinds) ==
    [k \in 1..Len(kinds) |->
        [PageKind(kinds[k]) EXCEPT !.id = k, !.resources = OrigResources(k)]]

Documents == {Document(ks) : ks \in UNION {[1..n -> PageKinds] : n \in 1..MaxPages}}

Margins(l, r, t, b) == [left |-> l, right |-> r, top |-> t, bottom |-> b]

\* trim width, bleed, margins (inches) as api_process passes them on: the
\* form's numbers go through float() only, so a margin may be negative
LayoutSpecs ==
    { [trim_width_in |-> Rat(175, 18), bleed_in |-> Rat(1, 8),
       margins |-> Margins(R0, R0, R0, R0)],
      [trim_width_in |-> Rat(25, 9), bleed_in |-> Rat(300001, 2400000),
       margins |-> Margins(R0, R0, R0, R0)],
      [trim_width_in |-> Rat(21, 2), bleed_in |-> Rat(1, 8),
       margins |-> Margins(Rat(1, 4), Rat(1, 4), Rat(1, 2), Rat(1, 2))],
      [trim_width_in |-> RInt(5), bleed_in |-> Rat(1, 8),
       margins |-> Margins(RInt(3), RInt(3), R0, R0)],
      [trim_width_in |-> RInt(6), bleed_in |-> Rat(1, 8),
       margins |-> Margins(RInt(3), RInt(3), Rat(1, 2), Rat(1, 2))],
      [trim_width_in |-> Rat(175, 18), bleed_in |-> Rat(1, 8),
       margins |-> Margins(Rat(-1, 2), R0, R0, R0)] }

\* delete_pages: none, the cover, indices 0 and 1 with a duplicate,
\* index 1 twice among out-of-range indices, every index
DeleteLists ==
    { <<>>, <<0>>, <<1, 0, 1>>, <<-1, 1, MaxPages + 4, 1>>, [k \in 1..MaxPages |-> k - 1] }

BgStyles == {"auto", "blue_gradient"}

Calls ==
    { [doc |-> d, trim_width_in |-> ls.trim_width_in, bleed_in |-> ls.bleed_in,
       margins |-> ls.margins, bg_style |-> st, insert_blank_after_cover |-> ib,
       delete_pages |-> dl, flip_even_pages |-> fl] :
      d \in Documents, ls \in LayoutSpecs, st \in BgStyles, ib \in BOOLEAN,
      dl \in DeleteLists, fl \in BOOLEAN }

----------------------------------------------------------------------------
(* process_pdf_file (src/app.py:439-530), one action per step.             *)

ErrEmpty == "No pages left after deletion."

ErrMargins == "Margins are too large for the trim area."

Range(s) == {s[k] : k \in 1..Len(s)}

\* the indices in ascending order
RECURSIVE SortedAsc(_)
SortedAsc(S) ==
    IF S = {} THEN <<>>
    ELSE LET m == CHOOSE x \in S : \A y \in S : x <= y
         IN  <<m>> \o SortedAsc(S \ {m})

\* sorted(set(delete_pages), reverse=True)
RECURSIVE SortedDesc(_)
SortedDesc(S) ==
    IF S = {} THEN <<>>
    ELSE LET m == CHOOSE x \in S : \A y \in S : y <= x
         IN  <<m>> \o SortedDesc(S \ {m})

\* del pdf.pages[idx], idx 0-based
DelAt(ps, idx) == SubSeq(ps, 1, idx) \o SubSeq(ps, idx + 2, Len(ps))

\* the deletion loop over the indices still to apply
RECURSIVE DeleteLoop(_, _)
DeleteLoop(ps, idxs) ==
    IF idxs = <<>> THEN ps
    ELSE DeleteLoop(IF 0 <= Head(idxs) /\ Head(idxs) < Len(ps)
                    THEN DelAt(ps, Head(idxs)) ELSE ps,
                    Tail(idxs))

\* a deletion that applies the indices in ascending order
AfterDeletion_Ascending(ps, delete_pages) == DeleteLoop(ps, SortedAsc(Range(delete_pages)))

AfterDeletion(ps, delete_pages) == DeleteLoop(ps, SortedDesc(Range(delete_pages)))

\* the flag taken from the parity of the 1-based page number
FlipFlag_EvenIndex(flip_even_pages, idx) == flip_even_pages /\ (idx % 2 = 0)

\* flip_even_pages and (i % 2 == 1)
FlipFlag(flip_even_pages, idx) == flip_even_pages /\ (idx % 2 = 1)

\* is_blank = (insert_blank_after_cover and i == 1)
IsBlankIndex(insert_blank_after_cover, idx) == insert_blank_after_cover /\ idx = 1

\* the entry for the blank page without its mark
BlankInfo_Unmarked(idx, trim_width_in, trim_h_in, bleed_in, flip_even_pages) ==
    [page             |-> idx + 1,
     original_size    |-> <<>>,
     trim_size        |-> <<Fmt4(trim_width_in), Fmt4(trim_h_in)>>,
     media_size       |-> <<Fmt4(RAdd(trim_width_in, RMul(RInt(2), bleed_in))),
                            Fmt4(RAdd(trim_h_in, RMul(RInt(2), bleed_in)))>>,
     safe_area        |-> <<>>,
     scale_factor     |-> R1,
     flipped          |-> FlipFlag(flip_even_pages, idx),
     background_color |-> <<R1, R1, R1>>,
     is_blank         |-> FALSE]

\* the dictionary appended for the blank page (src/app.py:486-496)
BlankInfo(idx, trim_width_in, trim_h_in, bleed_in, flip_even_pages) ==
    [page             |-> idx + 1,
     original_size    |-> <<>>,
     trim_size        |-> <<Fmt4(trim_width_in), Fmt4(trim_h_in)>>,
     media_size       |-> <<Fmt4(RAdd(trim_width_in, RMul(RInt(2), bleed_in))),
                            Fmt4(RAdd(trim_h_in, RMul(RInt(2), bleed_in)))>>,
     safe_area        |-> <<>>,
     scale_factor     |-> R1,
     flipped          |-> FlipFlag(flip_even_pages, idx),
     background_color |-> <<R1, R1, R1>>,
     is_blank         |-> TRUE]

Step(name) == trail' = Append(trail, name)

Steps(names) == trail' = trail \o names

\* pdf = Pdf.open(input_path)
Open ==
    /\ pc = "open"
    /\ pages' = args.doc
    /\ pc' = "delete"
    /\ Step("open")
    /\ UNCHANGED <<args, trim_height_in, i, pages_info, saved, verification, err, unitVars>>

\* the deletion loop and the emptiness check
DeletePages ==
    /\ pc = "delete"
    /\ pages' = AfterDeletion(pages, args.delete_pages)
    /\ IF Len(pages') = 0
       THEN /\ err' = ErrEmpty
            /\ pc' = "raised"
       ELSE /\ err' = err
            /\ pc' = "derive"
    /\ Step("delete")
    /\ UNCHANGED <<args, trim_height_in, i, pages_info, saved, verification, unitVars>>

\* the trim height taken from the first page of the input file
DeriveTrimHeight_FirstInput ==
    /\ pc = "derive"
    /\ LET d == EffectiveDims(args.doc[1])
       IN  trim_height_in' =
               compute_trim_height(d[1], d[2], args.trim_width_in, args.margins)
    /\ pc' = "blank"
    /\ Step("derive")
    /\ UNCHANGED <<args, pages, i, pages_info, saved, verification, err, unitVars>>

\* the trim height from the first page
DeriveTrimHeight ==
    /\ pc = "derive"
    /\ LET d == EffectiveDims(pages[1])
       IN  trim_height_in' =
               compute_trim_height(d[1], d[2], args.trim_width_in, args.margins)
    /\ pc' = "blank"
    /\ Step("derive")
    /\ UNCHANGED <<args, pages, i, pages_info, saved, verification, err, unitVars>>

\* the optional blank page after the cover
InsertBlank ==
    /\ pc = "blank"
    /\ pages' = IF args.insert_blank_after_cover /\ Len(pages) >= 1
                THEN add_blank_page(pages, args.trim_width_in, trim_height_in,
                                    args.bleed_in, 1)
                ELSE pages
    /\ pc' = "compose"
    /\ i' = 0
    /\ pages_info' = <<>>
    /\ Step("blank")
    /\ UNCHANGED <<args, trim_height_in, saved, verification, err, unitVars>>

\* an iteration on the blank page that wraps it in two flip layers
ComposeBlank_FlipTwice ==
    /\ pc = "compose"
    /\ i < Len(pages)
    /\ IsBlankIndex(args.insert_blank_after_cover, i)
    /\ pages' = IF FlipFlag(args.flip_even_pages, i)
                THEN [pages EXCEPT ![i + 1] =
                        flip_existing_page(
                            flip_existing_page(pages[i + 1], args.trim_width_in,
                                               trim_height_in, args.bleed_in),
                            args.trim_width_in, trim_height_in, args.bleed_in)]
                ELSE pages
    /\ pages_info' = Append(pages_info,
                        BlankInfo(i, args.trim_width_in, trim_height_in,
                                  args.bleed_in, args.flip_even_pages))
    /\ i' = i + 1
    /\ Step("blank_page")
    /\ UNCHANGED <<pc, args, trim_height_in, saved, verification, err, unitVars>>

\* one iteration of the loop on the inserted blank page
ComposeBlank ==
    /\ pc = "compose"
    /\ i < Len(pages)
    /\ IsBlankIndex(args.insert_blank_after_cover, i)
    /\ pages' = IF FlipFlag(args.flip_even_pages, i)
                THEN [pages EXCEPT ![i + 1] =
                        flip_existing_page(pages[i + 1], args.trim_width_in,
                                           trim_height_in, args.bleed_in)]
                ELSE pages
    /\ pages_info' = Append(pages_info,
                        BlankInfo(i, args.trim_width_in, trim_height_in,
                                  args.bleed_in, args.flip_even_pages))
    /\ i' = i + 1
    /\ Step("blank_page")
    /\ UNCHANGED <<pc, args, trim_height_in, saved, verification, err, unitVars>>

\* the loop body once process_page has returned r: the ValueError leaves the
\* run with the page as process_page left it; otherwise the page is replaced
\* in place and its info appended
AfterProcessPage(r) ==
    IF r.raises
    THEN /\ err' = ErrMargins
         /\ pc' = "raised"
         /\ pages' = [pages EXCEPT ![i + 1] = r.page]
         /\ UNCHANGED <<pages_info, i>>
    ELSE /\ pages' = [pages EXCEPT ![i + 1] = r.page]
         /\ pages_info' = Append(pages_info, r.info)
         /\ i' = i + 1
         /\ UNCHANGED <<pc, err>>

\* one iteration of the loop on a source page
ComposePage ==
    /\ pc = "compose"
    /\ i < Len(pages)
    /\ ~IsBlankIndex(args.insert_blank_after_cover, i)
    /\ AfterProcessPage(process_page(pages[i + 1], i, args.trim_width_in,
                                     trim_height_in, args.bleed_in, args.margins,
                                     args.bg_style, FlipFlag(args.flip_even_pages, i)))
    /\ Step("page")
    /\ UNCHANGED <<args, trim_height_in, saved, verification, unitVars>>

\* the save taken anywhere in the loop
Save_InLoop ==
    /\ pc = "compose"
    /\ saved' = pages
    /\ pc' = "verify"
    /\ Steps(<<"save", "close">>)
    /\ UNCHANGED <<args, pages, trim_height_in, i, pages_info, verification, err, unitVars>>

\* a save that leaves the document open
Save_KeepOpen ==
    /\ pc = "compose"
    /\ i = Len(pages)
    /\ saved' = pages
    /\ pc' = "verify"
    /\ Step("save")
    /\ UNCHANGED <<args, pages, trim_height_in, i, pages_info, verification, err, unitVars>>

\* pdf.save(output_path); pdf.close()
Save ==
    /\ pc = "compose"
    /\ i = Len(pages)
    /\ saved' = pages
    /\ pc' = "verify"
    /\ Steps(<<"save", "close">>)
    /\ UNCHANGED <<args, pages, trim_height_in, i, pages_info, verification, err, unitVars>>

\* a verification that raises on the first page with a failed check
Verify_Fatal ==
    /\ pc = "verify"
    /\ LET report == [k \in 1..Len(saved) |->
                        LET checks == verify_page(saved[k], args.trim_width_in,
                                                  trim_height_in, args.bleed_in)
                        IN  [page |-> k, checks |-> checks,
                             all_pass |-> \A c \in 1..Len(checks) : checks[c].pass]]
       IN  IF \A k \in 1..Len(report) : report[k].all_pass
           THEN verification' = report /\ pc' = "done" /\ err' = err
           ELSE verification' = <<>> /\ pc' = "raised" /\ err' = "Verification failed."
    /\ Steps(<<"open2", "verify", "close2">>)
    /\ UNCHANGED <<args, pages, trim_height_in, i, pages_info, saved, unitVars>>

\* pdf2 = Pdf.open(output_path), the verification loop, pdf2.close() and
\* the return
Verify ==
    /\ pc = "verify"
    /\ verification' =
          [k \in 1..Len(saved) |->
              LET checks == verify_page(saved[k], args.trim_width_in,
                                        trim_height_in, args.bleed_in)
              IN  [page |-> k, checks |-> checks,
                   all_pass |-> \A c \in 1..Len(checks) : checks[c].pass]]
    /\ pc' = "done"
    /\ Steps(<<"open2", "verify", "close2">>)
    /\ UNCHANGED <<args, pages, trim_height_in, i, pages_info, saved, err, unitVars>>

NoPage == SourcePage(BoxI(0, 0, 1, 1), None, None, None,
                     [kind |-> "none", raw |-> <<>>, ops |-> <<>>])

Init ==
    /\ args \in Calls
    /\ pc = "open"
    /\ pages = <<>>
    /\ trim_height_in = NoValue
    /\ i = 0
    /\ pages_info = <<>>
    /\ saved = <<>>
    /\ trail = <<>>
    /\ verification = <<>>
    /\ err = "none"
    /\ bgPage = NoPage
    /\ bgResult = NoValue
    /\ markBox = NoValue
    /\ markStream = NoValue
    /\ f64Call = NoValue
    /\ f64Height = NoValue
    /\ f64Safe = NoValue

Next ==
    \/ Open
    \/ DeletePages
    \/ DeriveTrimHeight
    \/ InsertBlank
    \/ ComposeBlank
    \/ ComposePage
    \/ Save
    \/ Verify

Spec == Init /\ [][Next]_vars

----------------------------------------------------------------------------
(* Vocabulary of the properties.                                           *)

TrimWPt == Pts(args.trim_width_in)

TrimHPt == Pts(trim_height_in)

BleedPt == Pts(args.bleed_in)

Two == RInt(2)

\* the pages process_page has returned for, by position in pdf.pages
ComposedPositions ==
    IF pc \in {"compose", "verify", "done"}
    THEN {k \in 1..Len(pages) : k <= i /\ pages[k].id # 0}
    ELSE {}

\* the source page a page of the run started as
SourceOf(p) == args.doc[p.id]

IsFlipOp(o) ==
    /\ o.op = "cm"
    /\ SubSeq(o.a, 1, 4) = <<RInt(-1), R0, R0, RInt(-1)>>

FlipCount(ops) == Cardinality({k \in 1..Len(ops) : IsFlipOp(ops[k])})

\* the whole stream is drawn inside one flip: q, flip matrix, ..., Q
DrawnFlipped(ops) ==
    /\ Len(ops) >= 3
    /\ ops[1].op = "q"
    /\ IsFlipOp(ops[2])
    /\ ops[Len(ops)].op = "Q"
    /\ FlipCount(ops) = 1

SafeWidthPt == RSub(RSub(TrimWPt, Pts(args.margins.left)), Pts(args.margins.right))

----------------------------------------------------------------------------
\* C1: after a run has composed and saved, every page of the persisted
\* output (composed pages and the blank alike) passes verify_page: its
\* TrimBox width and height are within 0.01 of the requested trim width and
\* the derived trim height, and each of the four bleed offsets (TrimBox edge
\* minus MediaBox edge) is within 0.001 of the requested bleed.
TheoremC1 ==
    pc = "done" =>
        /\ Len(verification) = Len(saved)
        /\ \A k \in 1..Len(saved) :
            LET m == saved[k].mediabox
                t == saved[k].trimbox
                Inch(x) == RDiv(x, RInt(72))
                Near(x, y, tol) == RLt(RAbs(RSub(x, y)), tol)
            IN  /\ verification[k].all_pass
                /\ \A c \in 1..Len(verification[k].checks) :
                       verification[k].checks[c].pass
                /\ t # None
                /\ Near(Inch(RSub(t[3], t[1])), args.trim_width_in, Rat(1, 100))
                /\ Near(Inch(RSub(t[4], t[2])), trim_height_in, Rat(1, 100))
                /\ Near(Inch(RSub(t[1], m[1])), args.bleed_in, Rat(1, 1000))
                /\ Near(Inch(RSub(m[3], t[3])), args.bleed_in, Rat(1, 1000))
                /\ Near(Inch(RSub(t[2], m[2])), args.bleed_in, Rat(1, 1000))
                /\ Near(Inch(RSub(m[4], t[4])), args.bleed_in, Rat(1, 1000))

\* a finished run whose output holds a composed cover, the blank and a
\* composed page, all verified
WitnessC1 ==
    /\ pc = "done"
    /\ Len(saved) = 3
    /\ saved[2].id = 0
    /\ saved[3].id # 0
    /\ \A k \in 1..3 : verification[k].all_pass

\* C2: after process_page has returned for a page, whatever boxes and
\* rotation it had: MediaBox = [0, 0, trimW + 2 bleed, trimH + 2 bleed],
\* TrimBox = [bleed, bleed, bleed + trimW, bleed + trimH], BleedBox =
\* MediaBox, no CropBox, no Rotate; MediaBox dims = TrimBox dims + 2 bleed.
TheoremC2 ==
    \A k \in ComposedPositions :
        LET p == pages[k]
        IN  /\ p.mediabox = Box(R0, R0, RAdd(TrimWPt, RMul(Two, BleedPt)),
                                RAdd(TrimHPt, RMul(Two, BleedPt)))
            /\ p.trimbox = Box(BleedPt, BleedPt, RAdd(BleedPt, TrimWPt),
                               RAdd(BleedPt, TrimHPt))
            /\ p.bleedbox = p.mediabox
            /\ p.cropbox = None
            /\ p.rotate = None
            /\ RSub(p.mediabox[3], p.mediabox[1])
                 = RAdd(RSub(p.trimbox[3], p.trimbox[1]), RMul(Two, BleedPt))
            /\ RSub(p.mediabox[4], p.mediabox[2])
                 = RAdd(RSub(p.trimbox[4], p.trimbox[2]), RMul(Two, BleedPt))

\* composed pages that came with a CropBox and a Rotate entry, and with a
\* TrimBox and rotation 90
WitnessC2 ==
    /\ \E k \in ComposedPositions :
          SourceOf(pages[k]).cropbox # None /\ SourceOf(pages[k]).rotate # None
    /\ \E k \in ComposedPositions :
          SourceOf(pages[k]).trimbox # None /\ Rotation(SourceOf(pages[k])) = 90

\* C3: a run in which the layout error or the empty-document error is
\* raised persists no document, and a document is persisted only when the
\* deletion, the blank insertion and the composition of every page have
\* succeeded: no partially composed document is written.
TheoremC3 ==
    /\ err # "none" => saved = <<>> /\ pc = "raised"
    /\ saved # <<>> =>
          /\ err = "none"
          /\ saved = pages
          /\ Len(pages_info) = Len(saved)
          /\ \A k \in 1..Len(saved) :
                saved[k].id = 0 \/ saved[k].resources.kind = "composed"

\* the layout error raised after the blank page was inserted
WitnessC3 ==
    /\ pc = "raised"
    /\ err = ErrMargins
    /\ \E k \in 1..Len(pages) : pages[k].id = 0
    /\ saved = <<>>

\* C4: compute_trim_height fails with the layout error whenever safeWidth =
\* trimWidth - marginLeft - marginRight <= 0, instead of returning a trim
\* height.
ClaimC4 ==
    RLe(SafeWidthPt, R0) => trim_height_in = NoValue

\* C5: when the delete set contains every page index of the input, the run
\* fails with "No pages left after deletion." right after the deletion
\* step: no trim height is derived, no blank page inserted, no page
\* composed and nothing saved.
TheoremC5 ==
    ((\A x \in 0..(Len(args.doc) - 1) : x \in Range(args.delete_pages))
        /\ pc \notin {"open", "delete"})
    => /\ pc = "raised"
       /\ err = ErrEmpty
       /\ trail = <<"open", "delete">>
       /\ trim_height_in = NoValue
       /\ pages = <<>>
       /\ pages_info = <<>>
       /\ saved = <<>>

\* both pages of a two-page input deleted
WitnessC5 ==
    /\ Len(args.doc) = 2
    /\ {0, 1} \subseteq Range(args.delete_pages)
    /\ pc = "raised"
    /\ err = ErrEmpty

\* C6: in the persisted output the page at 0-based final index x is drawn
\* inside the 180-degree flip iff flip_even_pages is on and x is odd; no
\* other page holds a flip matrix; the reported 'flipped' equals the flag.
TheoremC6 ==
    saved # <<>> =>
        \A k \in 1..Len(saved) :
            LET want == args.flip_even_pages /\ ((k - 1) % 2 = 1)
                ops == saved[k].contents.ops
            IN  /\ want => DrawnFlipped(ops)
                /\ ~want => FlipCount(ops) = 0
                /\ pages_info[k].flipped = want
                /\ pages_info[k].page = k

\* duplex on: a composed page at index 1 flipped, or the blank at index 1
\* flipped and the composed page at index 2 not
WitnessC6 ==
    /\ pc = "done"
    /\ args.flip_even_pages
    /\ Len(saved) = 3
    /\ saved[2].id = 0
    /\ DrawnFlipped(saved[2].contents.ops)
    /\ FlipCount(saved[3].contents.ops) = 0

\* the end points of the crop-mark segments of a content stream
MarkPoints(ops) ==
    UNION { {<<ops[k].a[1], ops[k].a[2]>>, <<ops[k].a[3], ops[k].a[4]>>} :
            k \in {n \in 1..Len(ops) : ops[n].op = "seg"} }

\* the same points under the flip matrix the stream opens with
FlippedMarkPoints(ops) ==
    { <<RSub(ops[2].a[5], pt[1]), RSub(ops[2].a[6], pt[2])>> : pt \in MarkPoints(ops) }

Close4(pt, qt) ==
    /\ RLe(RAbs(RSub(pt[1], qt[1])), Rat(1, 10000))
    /\ RLe(RAbs(RSub(pt[2], qt[2])), Rat(1, 10000))

FlippedPositions == {k \in 1..Len(saved) : DrawnFlipped(saved[k].contents.ops)}

PlainPositions == {k \in 1..Len(saved) : FlipCount(saved[k].contents.ops) = 0}

OnGrid ==
    /\ Fmt4(BleedPt) = BleedPt
    /\ Fmt4(TrimWPt) = TrimWPt
    /\ Fmt4(TrimHPt) = TrimHPt

\* C7 as stated: the crop-mark end points of a flipped page, mapped by the
\* flip (x, y) -> (mediaW - x, mediaH - y), are exactly the crop-mark end
\* points of an unflipped page of the same layout.
ClaimC7 ==
    \A j \in FlippedPositions : \A k \in PlainPositions :
        FlippedMarkPoints(saved[j].contents.ops) = MarkPoints(saved[k].contents.ops)

\* C7 amended: the mapped end points of a flipped page coincide with those
\* of an unflipped page to within 0.0001 unit on each axis (every operand
\* is written with four decimals), and exactly when bleed, trim width and
\* trim height are multiples of 0.0001 unit.
TheoremC7 ==
    \A j \in FlippedPositions : \A k \in PlainPositions :
        LET F == FlippedMarkPoints(saved[j].contents.ops)
            U == MarkPoints(saved[k].contents.ops)
        IN  /\ \A pt \in F : \E qt \in U : Close4(pt, qt)
            /\ \A qt \in U : \E pt \in F : Close4(pt, qt)
            /\ Cardinality(U) = 16
            /\ OnGrid => F = U

\* a flipped and an unflipped page whose marks agree only within 0.0001
WitnessC7 ==
    /\ pc = "done"
    /\ ~OnGrid
    /\ \E j \in FlippedPositions : \E k \in PlainPositions :
          FlippedMarkPoints(saved[j].contents.ops) # MarkPoints(saved[k].contents.ops)

\* C8: for every composed page the scale is min(safeW/origW, safeH/origH),
\* written on both axes of the placement matrix; the scaled original box at
\* the computed offset lies inside the safe rectangle with origin
\* (bleed + marginLeft, bleed + marginBottom) and size (safeW, safeH), and
\* is centred in it.
TheoremC8 ==
    \A k \in ComposedPositions :
        LET src == SourceOf(pages[k])
            w0 == RSub(src.mediabox[3], src.mediabox[1])
            h0 == RSub(src.mediabox[4], src.mediabox[2])
            turned == src.rotate \in {<<90>>, <<270>>}
            ow == IF turned THEN h0 ELSE w0
            oh == IF turned THEN w0 ELSE h0
            safeW == RSub(RSub(TrimWPt, Pts(args.margins.left)), Pts(args.margins.right))
            safeH == RSub(RSub(TrimHPt, Pts(args.margins.top)), Pts(args.margins.bottom))
            x0 == RAdd(BleedPt, Pts(args.margins.left))
            y0 == RAdd(BleedPt, Pts(args.margins.bottom))
            sc == RMin(RDiv(safeW, ow), RDiv(safeH, oh))
            L == Layout(src, args.trim_width_in, trim_height_in, args.bleed_in, args.margins)
            ops == pages[k].contents.ops
            cms == {n \in 1..Len(ops) : ops[n].op = "cm" /\ ~IsFlipOp(ops[n])}
        IN  /\ L.scale = sc
            /\ pages_info[k].scale_factor = Fmt6(sc)
            /\ Cardinality(cms) = 1
            /\ \A n \in cms :
                  /\ ops[n].a = <<Fmt6(sc), R0, R0, Fmt6(sc), Fmt4(L.x_off), Fmt4(L.y_off)>>
                  /\ ops[n + 1].op = "Do"
            /\ RLe(x0, L.x_off)
            /\ RLe(RAdd(L.x_off, RMul(ow, sc)), RAdd(x0, safeW))
            /\ RLe(y0, L.y_off)
            /\ RLe(RAdd(L.y_off, RMul(oh, sc)), RAdd(y0, safeH))
            /\ RSub(L.x_off, x0) = RSub(RAdd(x0, safeW), RAdd(L.x_off, RMul(ow, sc)))
            /\ RSub(L.y_off, y0) = RSub(RAdd(y0, safeH), RAdd(L.y_off, RMul(oh, sc)))

\* an original of 100 x 50 in a safe area of 200 x 80, composed at 1.6
WitnessC8 ==
    \E k \in ComposedPositions :
        /\ EffectiveDims(SourceOf(pages[k])) = <<RInt(100), RInt(50)>>
        /\ SafeWidthPt = RInt(200)
        /\ RSub(RSub(TrimHPt, Pts(args.margins.top)), Pts(args.margins.bottom)) = RInt(80)
        /\ pages_info[k].scale_factor = Rat(16, 10)
        /\ \E n \in 1..Len(pages[k].contents.ops) :
              /\ pages[k].contents.ops[n].op = "cm"
              /\ pages[k].contents.ops[n].a[1] = Rat(16, 10)
              /\ pages[k].contents.ops[n].a[4] = Rat(16, 10)

\* the 0-based indices of the input that the delete list leaves
RemainingIndices ==
    {x \in 0..(Len(args.doc) - 1) : x \notin Range(args.delete_pages)}

\* C9: a run derives one trim height, from the first page that remains
\* after deletion: origH (trimWidth - marginLeft - marginRight) / origW +
\* marginTop + marginBottom, origW and origH swapped for rotation 90 / 270;
\* every page of the run gets that height.  A 1-page 720 x 405 input with
\* trimWidth 700, bleed 9 and no margins gives 393.75, MediaBox
\* [0 0 718 411.75] and TrimBox [9 9 709 402.75].
TheoremC9 ==
    /\ Cardinality({k \in 1..Len(trail) : trail[k] = "derive"})
          = IF trim_height_in = NoValue THEN 0 ELSE 1
    /\ trim_height_in # NoValue =>
          LET first == CHOOSE x \in RemainingIndices : \A y \in RemainingIndices : x <= y
              src == args.doc[first + 1]
              w0 == RSub(src.mediabox[3], src.mediabox[1])
              h0 == RSub(src.mediabox[4], src.mediabox[2])
              turned == src.rotate \in {<<90>>, <<270>>}
              ow == IF turned THEN h0 ELSE w0
              oh == IF turned THEN w0 ELSE h0
          IN  /\ TrimHPt = RAdd(RAdd(RDiv(RMul(oh, SafeWidthPt), ow),
                                     Pts(args.margins.top)), Pts(args.margins.bottom))
              /\ \A k \in 1..Len(pages) :
                    (k \in ComposedPositions \/ pages[k].id = 0) =>
                        RSub(pages[k].trimbox[4], pages[k].trimbox[2]) = TrimHPt
    /\ (/\ pc = "done"
        /\ Len(saved) = 1
        /\ SourceOf(saved[1]).mediabox = BoxI(0, 0, 720, 405)
        /\ SourceOf(saved[1]).rotate = None
        /\ TrimWPt = RInt(700)
        /\ BleedPt = RInt(9)
        /\ args.margins = Margins(R0, R0, R0, R0))
       => /\ TrimHPt = Rat(39375, 100)
          /\ saved[1].mediabox = Box(R0, R0, RInt(718), Rat(41175, 100))
          /\ saved[1].trimbox = Box(RInt(9), RInt(9), RInt(709), Rat(40275, 100))

\* the cover deleted and the height taken from the rotated page behind it
WitnessC9 ==
    /\ pc = "done"
    /\ 0 \in Range(args.delete_pages)
    /\ Len(args.doc) = 2
    /\ args.doc[1].rotate = None
    /\ saved[1].id = 2
    /\ Rotation(args.doc[2]) = 90
    /\ TrimHPt = RDiv(RMul(RInt(200), SafeWidthPt), RInt(500))

\* the 1-page example of C9, finished
ExampleC9 ==
    /\ pc = "done"
    /\ Len(saved) = 1
    /\ SourceOf(saved[1]).mediabox = BoxI(0, 0, 720, 405)
    /\ TrimWPt = RInt(700)
    /\ BleedPt = RInt(9)
    /\ args.margins = Margins(R0, R0, R0, R0)
    /\ saved[1].trimbox = Box(RInt(9), RInt(9), RInt(709), Rat(40275, 100))

\* box a = <<x0, y0, x1, y1>> lies inside box b
BoxInside(a, b) ==
    /\ RLe(b[1], a[1])
    /\ RLe(b[2], a[2])
    /\ RLe(a[3], b[3])
    /\ RLe(a[4], b[4])

\* the safe rectangle of the run: origin (bleed + marginLeft, bleed +
\* marginBottom), size trim minus margins
SafeRect ==
    LET x0 == RAdd(BleedPt, Pts(args.margins.left))
        y0 == RAdd(BleedPt, Pts(args.margins.bottom))
    IN  Box(x0, y0,
            RAdd(x0, SafeWidthPt),
            RAdd(y0, RSub(RSub(TrimHPt, Pts(args.margins.top)), Pts(args.margins.bottom))))

\* C13: for every page composed without error the safe rectangle has
\* positive width and height and lies inside the TrimBox, and the TrimBox
\* lies inside the MediaBox; a layout for which that nesting does not hold
\* is rejected with the layout error and no page is composed under it.
ClaimC13 ==
    \A k \in ComposedPositions :
        /\ RLt(SafeRect[1], SafeRect[3])
        /\ RLt(SafeRect[2], SafeRect[4])
        /\ BoxInside(SafeRect, pages[k].trimbox)
        /\ BoxInside(pages[k].trimbox, pages[k].mediabox)

----------------------------------------------------------------------------
(* detect_background_color on its own: the pages it is given.              *)

MaxPhrases == 2

\* pieces of content: fills "rg", "scn", "sc", "g"; an rg whose first
\* operand float() rejects; a rectangle fill; a stroke colour; "gs"; an rg
\* with a signed operand; an rg with an operand on the 0..255 scale
Phrases ==
    { <<"1", " ", "0", " ", "0", " ", "r", "g">>,   \* 1 0 0 rg
      <<"0", ".", "5", " ", "0", ".", "5", " ", "0", ".", "5", " ", "r", "g">>,   \* 0.5 0.5 0.5 rg
      <<".", "5", " ", "0", " ", "1", " ", "s", "c", "n">>,   \* .5 0 1 scn
      <<"0", " ", "0", " ", "1", " ", "s", "c">>,   \* 0 0 1 sc
      <<".", "2", " ", "g">>,   \* .2 g
      <<"1", ".", "2", ".", "3", " ", "0", " ", "0", " ", "r", "g">>,   \* 1.2.3 0 0 rg
      <<"0", " ", "0", " ", "9", " ", "9", " ", "r", "e", " ", "f">>,   \* 0 0 9 9 re f
      <<"1", " ", "1", " ", "1", " ", "R", "G">>,   \* 1 1 1 RG
      <<"5", " ", "g", "s">>,   \* 5 gs
      <<"-", "1", " ", "0", " ", "0", " ", "r", "g">>,   \* -1 0 0 rg
      <<"2", "5", "5", " ", "0", " ", "0", " ", "r", "g">> }

PhraseSeqs == UNION {[1..n -> Phrases] : n \in 0..MaxPhrases}

RECURSIVE JoinSpace(_)
JoinSpace(ps) ==
    IF ps = <<>> THEN <<>>
    ELSE IF Len(ps) = 1 THEN ps[1]
    ELSE ps[1] \o <<" ">> \o JoinSpace(Tail(ps))

\* filler lengths that put the window's end before, inside and after the
\* pieces
Pads == {0, EarlyLen - 20, EarlyLen - 12, EarlyLen - 7, EarlyLen - 3, EarlyLen}

BgSourcePage(contents) == SourcePage(BoxI(0, 0, 720, 405), None, None, None, contents)

BgPages ==
    {BgSourcePage([kind |-> "none", raw |-> <<>>, ops |-> <<>>])}
    \cup {BgSourcePage([kind |-> "stream", raw |-> <<Text(pad, JoinSpace(ps))>>, ops |-> <<>>]) :
            pad \in Pads, ps \in PhraseSeqs}
    \cup {BgSourcePage([kind |-> "array",
                        raw |-> [k \in 1..Len(ps) |-> Text(IF k = 1 THEN pad ELSE 0, ps[k])],
                        ops |-> <<>>]) :
            pad \in Pads, ps \in PhraseSeqs \ {<<>>}}
    \cup {BgSourcePage([kind |-> "stream",
                        raw |-> <<[pad |-> 0, tail |-> JoinSpace(ps), ok |-> FALSE]>>,
                        ops |-> <<>>]) :
            ps \in PhraseSeqs}

InitBg ==
    /\ bgPage \in BgPages
    /\ bgResult = NoValue
    /\ markBox = NoValue
    /\ markStream = NoValue
    /\ f64Call = NoValue
    /\ f64Height = NoValue
    /\ f64Safe = NoValue
    /\ args = NoValue
    /\ pc = "idle"
    /\ pages = <<>>
    /\ trim_height_in = NoValue
    /\ i = 0
    /\ pages_info = <<>>
    /\ saved = <<>>
    /\ trail = <<>>
    /\ verification = <<>>
    /\ err = "none"

\* bg_color = detect_background_color(page)
Detect ==
    /\ bgResult = NoValue
    /\ bgResult' = detect_background_color(bgPage)
    /\ UNCHANGED <<bgPage, runVars, markVars, f64Vars>>

NextBg == Detect

SpecBg == InitBg /\ [][NextBg]_vars

----------------------------------------------------------------------------
(* build_trim_marks_stream on its own: the trim boxes it is given.         *)

\* lower-left corners on and off the grid of four decimals (9.00003 and
\* 8.503937 = 3 mm)
MarkOrigins == {R0, RInt(9), Rat(900003, 100000), Rat(8503937, 1000000)}

\* widths and heights: larger and smaller than a mark, on and off the grid,
\* and the negative height a negative scale gives (compute_trim_height)
MarkExtents == {RInt(756), RInt(200), Rat(1, 2), Rat(2834646, 10000), Rat(-81, 2)}

MarkBoxes == {<<x, y, w, h>> : x \in MarkOrigins, y \in {RInt(9), Rat(8503937, 1000000)},
                               w \in MarkExtents \ {Rat(-81, 2)}, h \in MarkExtents}

InitMarks ==
    /\ markBox \in MarkBoxes
    /\ markStream = NoValue
    /\ f64Call = NoValue
    /\ f64Height = NoValue
    /\ f64Safe = NoValue
    /\ bgPage = NoPage
    /\ bgResult = NoValue
    /\ args = NoValue
    /\ pc = "idle"
    /\ pages = <<>>
    /\ trim_height_in = NoValue
    /\ i = 0
    /\ pages_info = <<>>
    /\ saved = <<>>
    /\ trail = <<>>
    /\ verification = <<>>
    /\ err = "none"

\* marks = build_trim_marks_stream(trim_x, trim_y, trim_w, trim_h)
DrawMarks ==
    /\ markStream = NoValue
    /\ markStream' = build_trim_marks_stream(markBox[1], markBox[2], markBox[3], markBox[4])
    /\ UNCHANGED <<markBox, runVars, bgVars, f64Vars>>

NextMarks == DrawMarks

SpecMarks == InitMarks /\ [][NextMarks]_vars

----------------------------------------------------------------------------
(* The verification step on its own: the documents found at output_path.   *)

\* the call whose output is verified: trim 700 x 393.75 pt, bleed 9 pt
VerifyCall ==
    [doc |-> <<>>, trim_width_in |-> Rat(175, 18), bleed_in |-> Rat(1, 8),
     margins |-> Margins(R0, R0, R0, R0), bg_style |-> "auto",
     insert_blank_after_cover |-> FALSE, delete_pages |-> <<>>,
     flip_even_pages |-> FALSE]

\* a page of the file: MediaBox [0 0 718 411.75], the TrimBox shifted right
\* by e and widened by d, heightened by dh (points), either box possibly absent
VerifyPage(e, d, dh, hasTrim, hasBleed) ==
    [id        |-> 0,
     mediabox  |-> Box(R0, R0, RInt(718), Rat(41175, 100)),
     trimbox   |-> IF hasTrim
                   THEN Box(RAdd(RInt(9), e), RInt(9),
                            RAdd(RAdd(RInt(709), e), d), RAdd(Rat(40275, 100), dh))
                   ELSE None,
     bleedbox  |-> IF hasBleed THEN Box(R0, R0, RInt(718), Rat(41175, 100)) ELSE None,
     cropbox   |-> None,
     rotate    |-> None,
     contents  |-> [kind |-> "stream", raw |-> <<>>, ops |-> <<>>],
     resources |-> NoResources]

\* deviations of a length from its value, in points, around 0.01 point and
\* around 0.01 inch = 0.72 point
SizeDeltas == {R0, Rat(1, 200), Rat(1, 100), Rat(1, 2), Rat(72, 100), R1}

\* deviations of a bleed offset, around 0.001 point and 0.001 inch = 0.072 point
BleedDeltas == {R0, Rat(1, 2000), Rat(1, 1000), Rat(1, 20), Rat(72, 1000), Rat(1, 10)}

VerifyPages ==
    {VerifyPage(e, d, R0, TRUE, hb) : e \in BleedDeltas, d \in SizeDeltas, hb \in BOOLEAN}
    \cup {VerifyPage(R0, R0, dh, TRUE, TRUE) : dh \in SizeDeltas}
    \cup {VerifyPage(R0, R0, R0, FALSE, hb) : hb \in BOOLEAN}

VerifyGoodPage == VerifyPage(R0, R0, R0, TRUE, TRUE)

VerifyDocs ==
    {<<pg>> : pg \in VerifyPages}
    \cup {<<VerifyGoodPage, pg>> : pg \in VerifyPages}
    \cup {<<pg, VerifyGoodPage>> : pg \in VerifyPages}

\* the run after pdf.save and pdf.close, with the file as it is reopened
InitVerify ==
    /\ args = VerifyCall
    /\ trim_height_in = Rat(39375, 7200)
    /\ saved \in VerifyDocs
    /\ pages = saved
    /\ pc = "verify"
    /\ i = Len(saved)
    /\ pages_info = <<>>
    /\ trail = <<"open", "delete", "derive", "blank">>
               \o [k \in 1..Len(saved) |-> "page"] \o <<"save", "close">>
    /\ verification = <<>>
    /\ err = "none"
    /\ bgPage = NoPage
    /\ bgResult = NoValue
    /\ markBox = NoValue
    /\ markStream = NoValue
    /\ f64Call = NoValue
    /\ f64Height = NoValue
    /\ f64Safe = NoValue

NextVerify == Verify

SpecVerify == InitVerify /\ [][NextVerify]_vars

----------------------------------------------------------------------------
(* The sampler's result stated over whitespace-separated tokens.           *)

RECURSIVE TokAcc(_, _, _, _)
TokAcc(s, p, cur, acc) ==
    LET closed == IF cur = <<>> THEN acc ELSE Append(acc, cur)
    IN  IF p > Len(s) THEN closed
        ELSE IF s[p] \in {" ", "\n", "\t", "\r"} THEN TokAcc(s, p + 1, <<>>, closed)
        ELSE TokAcc(s, p + 1, Append(cur, s[p]), acc)

Tokens(s) == TokAcc(s, 1, <<>>, <<>>)

NumChars == {"0", "1", "2", "3", "4", "5", "6", "7", "8", "9", "."}

AllNum(tok) == tok # <<>> /\ \A k \in 1..Len(tok) : tok[k] \in NumChars

\* the longest numeric suffix of a token
NumSuffix(tok) ==
    LET starts == {k \in 1..(Len(tok) + 1) : \A n \in k..Len(tok) : tok[n] \in NumChars}
        k0 == CHOOSE k \in starts : \A n \in starts : k <= n
    IN  SubSeq(tok, k0, Len(tok))

StartsWith(tok, lit) == Len(tok) >= Len(lit) /\ SubSeq(tok, 1, Len(lit)) = lit

\* token positions of three-operand fills named lit
Fill3At(toks, lit) ==
    {j \in 4..Len(toks) :
        /\ StartsWith(toks[j], lit)
        /\ AllNum(toks[j - 1])
        /\ AllNum(toks[j - 2])
        /\ NumSuffix(toks[j - 3]) # <<>>}

\* token positions of one-operand gray fills
GrayAt(toks) ==
    {j \in 2..Len(toks) :
        /\ toks[j][1] = "g"
        /\ (Len(toks[j]) = 1 \/ ~IsWordCh(toks[j][2]))
        /\ NumSuffix(toks[j - 1]) # <<>>}

First(S) == CHOOSE x \in S : \A y \in S : x <= y

\* a decimal numeral's value: <<>> when it is no numeral
RECURSIVE IntOf(_)
IntOf(ds) == IF ds = <<>> THEN 0 ELSE 10 * IntOf(SubSeq(ds, 1, Len(ds) - 1)) + DigitVal(ds[Len(ds)])

Numeral(tok) ==
    LET dots == {k \in 1..Len(tok) : tok[k] = "."}
    IN  IF Cardinality(dots) > 1 \/ Len(tok) = Cardinality(dots) THEN <<>>
        ELSE IF dots = {} THEN <<RInt(IntOf(tok))>>
        ELSE LET d == CHOOSE k \in dots : TRUE
                 ip == SubSeq(tok, 1, d - 1)
                 fp == SubSeq(tok, d + 1, Len(tok))
             IN  <<RAdd(RInt(IntOf(ip)), Rat(IntOf(fp), Pow10(Len(fp))))>>

Operands(toks) ==
    IF \E k \in 1..Len(toks) : Numeral(toks[k]) = <<>> THEN White
    ELSE IF Len(toks) = 3
         THEN <<Numeral(toks[1])[1], Numeral(toks[2])[1], Numeral(toks[3])[1]>>
         ELSE <<Numeral(toks[1])[1], Numeral(toks[1])[1], Numeral(toks[1])[1]>>

\* the characters of a page's content at positions 1..3000
Window(page) ==
    LET t == ReadContents(page.contents)
        n == Cardinality({k \in 1..Len(t.tail) : t.pad + k <= 3000})
    IN  SubSeq(t.tail, 1, n)

ExpectedBackground(page) ==
    IF page.contents.kind = "none" THEN White
    ELSE IF \E k \in 1..Len(page.contents.raw) : ~page.contents.raw[k].ok THEN White
    ELSE LET toks == Tokens(Window(page))
             rg == Fill3At(toks, <<"r", "g">>)
             sc == Fill3At(toks, <<"s", "c">>)
             gr == GrayAt(toks)
             Ops3(j) == Operands(<<NumSuffix(toks[j - 3]), toks[j - 2], toks[j - 1]>>)
         IN  IF rg # {} THEN Ops3(First(rg))
             ELSE IF sc # {} THEN Ops3(First(sc))
             ELSE IF gr # {} THEN Operands(<<NumSuffix(toks[First(gr) - 1])>>)
             ELSE White

WitnessC10Cut ==
    /\ bgPage.contents.kind = "stream"
    /\ bgPage.contents.raw[1].pad = EarlyLen - 3
    /\ bgPage.contents.raw[1].tail = <<".", "2", " ", "g">>
    /\ bgResult = White

\* C11: whatever the bytes of the page content, each of the three channels
\* detect_background_color returns lies in the closed interval [0, 1].
ClaimC11 ==
    bgResult # NoValue =>
        \A k \in 1..3 : RLe(R0, bgResult[k]) /\ RLe(bgResult[k], R1)

----------------------------------------------------------------------------
(* The crop marks stated from the trim rectangle.                          *)

\* the four corners of the trim rectangle with the signs pointing outward
MarkCorners ==
    { [x |-> markBox[1], y |-> markBox[2], sx |-> -1, sy |-> -1],
      [x |-> RAdd(markBox[1], markBox[3]), y |-> markBox[2], sx |-> 1, sy |-> -1],
      [x |-> RAdd(markBox[1], markBox[3]), y |-> RAdd(markBox[2], markBox[4]),
       sx |-> 1, sy |-> 1],
      [x |-> markBox[1], y |-> RAdd(markBox[2], markBox[4]), sx |-> -1, sy |-> 1] }

StrokeAt(ops) == {k \in 1..Len(ops) : ops[k].op = "seg"}

\* the last operator named op before position k (0: none)
LastBefore(ops, k, op) ==
    LET S == {n \in 1..(k - 1) : ops[n].op = op}
    IN  IF S = {} THEN 0 ELSE CHOOSE n \in S : \A m \in S : m <= n

\* the strokes drawn with stroke colour rgb and line width w
StrokesIn(ops, rgb, w) ==
    {k \in StrokeAt(ops) :
        /\ LastBefore(ops, k, "RG") # 0
        /\ ops[LastBefore(ops, k, "RG")].a = rgb
        /\ LastBefore(ops, k, "w") # 0
        /\ ops[LastBefore(ops, k, "w")].a = <<w>>}

NearBy(a, b, tol) == RLe(RAbs(RSub(a, b)), tol)

\* segment a = <<x1, y1, x2, y2>> is the horizontal mark of corner c: on the
\* edge line y = c.y, from 3 to 21 units outward of the corner, within tol
IsHMark(a, c, tol) ==
    /\ a[2] = a[4]
    /\ NearBy(a[2], c.y, tol)
    /\ NearBy(a[1], RAdd(c.x, RInt(3 * c.sx)), tol)
    /\ NearBy(a[3], RAdd(c.x, RInt(21 * c.sx)), tol)

\* the vertical mark of corner c, on the edge line x = c.x
IsVMark(a, c, tol) ==
    /\ a[1] = a[3]
    /\ NearBy(a[1], c.x, tol)
    /\ NearBy(a[2], RAdd(c.y, RInt(3 * c.sy)), tol)
    /\ NearBy(a[4], RAdd(c.y, RInt(21 * c.sy)), tol)

RMax(a, b) == IF RLe(a, b) THEN b ELSE a

\* some point of the segment lies strictly inside the trim rectangle
EntersTrim(a) ==
    /\ RLt(RMin(a[1], a[3]), RAdd(markBox[1], markBox[3]))
    /\ RLt(markBox[1], RMax(a[1], a[3]))
    /\ RLt(RMin(a[2], a[4]), RAdd(markBox[2], markBox[4]))
    /\ RLt(markBox[2], RMax(a[2], a[4]))

\* the stream holds 16 strokes and nothing that fills or shows text; 8 are
\* white at width 1.0, the next 8 black at width 0.75 with the same
\* coordinates in the same order; each pass has at every corner one
\* horizontal and one vertical mark (within tol); none enters the trim area
MarksAsClaimed(ops, tol) ==
    LET white == StrokesIn(ops, <<R1, R1, R1>>, Rat(1, 1))
        black == StrokesIn(ops, <<R0, R0, R0>>, Rat(3, 4))
    IN  /\ Cardinality(StrokeAt(ops)) = 16
        /\ \A k \in 1..Len(ops) : ops[k].op \in {"q", "Q", "w", "RG", "J", "seg"}
        /\ Cardinality(white) = 8
        /\ Cardinality(black) = 8
        /\ \A k \in white : \A n \in black : k < n
        /\ \A k \in white : \E n \in black :
              /\ ops[n].a = ops[k].a
              /\ Cardinality({m \in black : m < n}) = Cardinality({m \in white : m < k})
        /\ \A pass \in {white, black} : \A c \in MarkCorners :
              /\ Cardinality({k \in pass : IsHMark(ops[k].a, c, tol)}) >= 1
              /\ Cardinality({k \in pass : IsVMark(ops[k].a, c, tol)}) >= 1
        /\ \A k \in StrokeAt(ops) :
              /\ \E c \in MarkCorners : IsHMark(ops[k].a, c, tol) \/ IsVMark(ops[k].a, c, tol)
              /\ ~EntersTrim(ops[k].a)

\* the trim box is a rectangle: positive width and height
MarkBoxProper == RLt(R0, markBox[3]) /\ RLt(R0, markBox[4])

MarkBoxOnGrid ==
    \A c \in MarkCorners : Fmt4(c.x) = c.x /\ Fmt4(c.y) = c.y

\* C12 as stated: build_trim_marks_stream emits exactly 16 stroked segments
\* and no fill or text operator: 8 white at width 1.0 (one horizontal and
\* one vertical at each trim-box corner), then 8 black at width 0.75 at
\* identical coordinates, every white stroke before every black one; each
\* segment starts exactly 3 and ends exactly 21 units from its corner along
\* the trim edge line, outward, so none enters the trim area.
ClaimC12 ==
    (markStream # NoValue /\ MarkBoxProper) => MarksAsClaimed(markStream, R0)

\* C12 amended: the same, with each segment on its corner's edge line and
\* its ends 3 and 21 units from the corner to within 0.00005 unit (every
\* operand is written with four decimals), and exactly so when the corner
\* coordinates are multiples of 0.0001 unit.
TheoremC12 ==
    (markStream # NoValue /\ MarkBoxProper) =>
        /\ MarksAsClaimed(markStream, Rat(1, 20000))
        /\ MarkBoxOnGrid => MarksAsClaimed(markStream, R0)

\* the marks of a trim box whose corner lies off the grid of four decimals,
\* so that a mark starts 3.00003 units from it
WitnessC12 ==
    /\ markStream # NoValue
    /\ MarkBoxProper
    /\ markBox[1] = Rat(900003, 100000)
    /\ ~MarkBoxOnGrid
    /\ \E k \in StrokeAt(markStream) : markStream[k].a[1] = RInt(6)

----------------------------------------------------------------------------
\* a page that is out of specification whatever the unit of the tolerances:
\* a box is missing, or the TrimBox is a whole point too wide or too high
ClearlyOff(pg) ==
    \/ pg.trimbox = None
    \/ pg.bleedbox = None
    \/ RLe(R1, RAbs(RSub(RSub(pg.trimbox[3], pg.trimbox[1]), TrimWPt)))
    \/ RLe(R1, RAbs(RSub(RSub(pg.trimbox[4], pg.trimbox[2]), TrimHPt)))

\* C14: the verification step reads the saved document and changes none of
\* its pages; a page that fails a check gets an entry with pass = false and
\* all_pass = false, the run still ends by returning its results with the
\* saved output in place; all_pass of a page is true exactly when all of
\* its checks passed.
TheoremC14 ==
    [][pc = "verify" =>
        /\ saved' = saved
        /\ pages' = pages
        /\ pages_info' = pages_info
        /\ pc' = "done"
        /\ err' = "none"
        /\ Len(verification') = Len(saved)
        /\ \A k \in 1..Len(saved) :
              /\ verification'[k].page = k
              /\ verification'[k].all_pass
                    <=> (\A c \in 1..Len(verification'[k].checks) :
                            verification'[k].checks[c].pass)
              /\ ClearlyOff(saved[k]) =>
                    /\ ~verification'[k].all_pass
                    /\ \E c \in 1..Len(verification'[k].checks) :
                          ~verification'[k].checks[c].pass]_vars

\* a returned report on a saved file whose first page passes and whose
\* second page, without a TrimBox, fails
WitnessC14 ==
    /\ pc = "done"
    /\ err = "none"
    /\ Len(saved) = 2
    /\ saved[2].trimbox = None
    /\ verification[1].all_pass
    /\ ~verification[2].all_pass
    /\ \E c \in 1..Len(verification[2].checks) :
          /\ verification[2].checks[c].label = "TrimBox present"
          /\ ~verification[2].checks[c].pass

\* the check labelled label of the report on page k passed
Passed(k, label) ==
    \E c \in 1..Len(verification[k].checks) :
        /\ verification[k].checks[c].label = label
        /\ verification[k].checks[c].pass

\* the box verify_page reads as the TrimBox: the MediaBox when it is absent
TrimOf(pg) == IF pg.trimbox = None THEN pg.mediabox ELSE pg.trimbox

\* a and b differ by tol or more
OffBy(a, b, tol) == RLe(tol, RAbs(RSub(a, b)))

\* C15: the tolerances are in points: the trim-width (trim-height) check
\* fails for every page whose TrimBox width (height) differs from the
\* specified one by 0.01 point or more, and a bleed check fails whenever
\* that side's bleed offset differs from the specified bleed by 0.001 point
\* or more.
ClaimC15 ==
    pc = "done" =>
        \A k \in 1..Len(saved) :
            LET t == TrimOf(saved[k])
                m == saved[k].mediabox
            IN  /\ OffBy(RSub(t[3], t[1]), TrimWPt, Rat(1, 100)) => ~Passed(k, "Trim width")
                /\ OffBy(RSub(t[4], t[2]), TrimHPt, Rat(1, 100)) => ~Passed(k, "Trim height")
                /\ OffBy(RSub(t[1], m[1]), BleedPt, Rat(1, 1000)) => ~Passed(k, "Bleed Left")
                /\ OffBy(RSub(m[3], t[3]), BleedPt, Rat(1, 1000)) => ~Passed(k, "Bleed Right")
                /\ OffBy(RSub(m[4], t[4]), BleedPt, Rat(1, 1000)) => ~Passed(k, "Bleed Top")
                /\ OffBy(RSub(t[2], m[2]), BleedPt, Rat(1, 1000)) => ~Passed(k, "Bleed Bottom")

----------------------------------------------------------------------------
\* the place of a step in the order of a run
StepRank(name) ==
    CASE name = "open" -> 1
      [] name = "delete" -> 2
      [] name = "derive" -> 3
      [] name = "blank" -> 4
      [] name \in {"page", "blank_page"} -> 5
      [] name = "save" -> 6
      [] name = "close" -> 7
      [] name = "open2" -> 8
      [] name = "verify" -> 9
      [] name = "close2" -> 10

\* the per-page steps taken so far
HandledSteps == {k \in 1..Len(trail) : trail[k] \in {"page", "blank_page"}}

\* C16: the steps of a run occur in the order open, deletion, trim-height
\* derivation, blank insertion, per-page composition in ascending index,
\* save, close, reopen, verification, close; each but the per-page step
\* occurs at most once and none is skipped; the save comes after every page
\* has been handled; no page is handled before the page sequence and the
\* trim height are final.
TheoremC16 ==
    /\ \A a \in 1..Len(trail) : \A b \in 1..Len(trail) :
          a < b =>
             /\ StepRank(trail[a]) <= StepRank(trail[b])
             /\ StepRank(trail[a]) = StepRank(trail[b]) => a \in HandledSteps
    /\ \A k \in 1..Len(trail) : \A r \in 1..(StepRank(trail[k]) - 1) :
          \E j \in 1..(k - 1) : StepRank(trail[j]) = r
    /\ \A k \in 1..Len(pages_info) : pages_info[k].page = k
    /\ Cardinality(HandledSteps)
          = Len(pages_info) + (IF err = ErrMargins THEN 1 ELSE 0)
    /\ HandledSteps # {} =>
          /\ trim_height_in # NoValue
          /\ Len(pages) = Cardinality(RemainingIndices)
                            + (IF args.insert_blank_after_cover THEN 1 ELSE 0)
    /\ saved # <<>> =>
          /\ Cardinality(HandledSteps) = Len(pages)
          /\ saved = pages
    /\ pc = "done" => trail[Len(trail)] = "close2"

\* a finished run over a cover, the blank and one more page
WitnessC16 ==
    /\ pc = "done"
    /\ trail = <<"open", "delete", "derive", "blank", "page", "blank_page", "page",
                 "save", "close", "open2", "verify", "close2">>

----------------------------------------------------------------------------
\* the number of graphics states saved and not yet restored after ops[k]
Depth(ops, k) ==
    Cardinality({n \in 1..k : ops[n].op = "q"}) - Cardinality({n \in 1..k : ops[n].op = "Q"})

\* the transform set at position c still applies at position n
InEffect(ops, c, n) ==
    /\ c < n
    /\ \A j \in c..n : Depth(ops, j) >= Depth(ops, c)

\* the four operators painting the background over <<0, 0, mw, mh>>
IsBackground(b, mw, mh) ==
    /\ Len(b) = 4
    /\ b[1] = Op("q", <<>>)
    /\ b[4] = Op("Q", <<>>)
    /\ \/ b[2].op = "rg" /\ Len(b[2].a) = 3 /\ b[3] = Op("re f", <<R0, R0, mw, mh>>)
       \/ b[2] = Op("re W n", <<R0, R0, mw, mh>>) /\ b[3] = Op("sh", <<>>)

\* the four operators invoking the form under a scale / translate matrix
IsPlacement(b) ==
    /\ Len(b) = 4
    /\ b[1] = Op("q", <<>>)
    /\ b[2].op = "cm" /\ Len(b[2].a) = 6
    /\ b[2].a[1] = b[2].a[4] /\ b[2].a[2] = R0 /\ b[2].a[3] = R0
    /\ b[3] = Op("Do", <<>>)
    /\ b[4] = Op("Q", <<>>)

\* a crop-mark layer: q, stroke settings and 16 strokes, Q
IsMarkLayer(b) ==
    /\ Len(b) = 24
    /\ b[1] = Op("q", <<>>)
    /\ b[24] = Op("Q", <<>>)
    /\ \A n \in 2..23 : b[n].op \in {"w", "RG", "J", "seg"}
    /\ Cardinality({n \in 2..23 : b[n].op = "seg"}) = 16

\* C17: the content stream compose writes consists, in this order, of the
\* flip opening (q and the matrix -1 0 0 -1 mediaW mediaH, the media size
\* as written with four decimals) only when flip is requested, the
\* background paint over the media rectangle, the form invoked under the
\* scale / translate matrix, the crop marks, and the flip closing only when
\* the flip was opened; every q has its Q; the scale / translate matrix
\* does not apply to the crop marks; a requested flip applies to all three
\* layers.
TheoremC17 ==
    \A k \in ComposedPositions :
        LET ops  == pages[k].contents.ops
            flip == args.flip_even_pages /\ (k - 1) % 2 = 1
            mw   == Fmt4(pages[k].mediabox[3])
            mh   == Fmt4(pages[k].mediabox[4])
            off  == IF flip THEN 2 ELSE 0
            segs == {n \in 1..Len(ops) : ops[n].op = "seg"}
        IN  /\ Len(ops) = 32 + (IF flip THEN 3 ELSE 0)
            /\ flip => /\ ops[1] = Op("q", <<>>)
                       /\ ops[2] = Op("cm", <<RInt(-1), R0, R0, RInt(-1), mw, mh>>)
                       /\ ops[Len(ops)] = Op("Q", <<>>)
                       /\ \A n \in 3..(Len(ops) - 1) : InEffect(ops, 2, n)
            /\ ~flip => FlipCount(ops) = 0
            /\ IsBackground(SubSeq(ops, off + 1, off + 4), mw, mh)
            /\ IsPlacement(SubSeq(ops, off + 5, off + 8))
            /\ IsMarkLayer(SubSeq(ops, off + 9, off + 32))
            /\ \A n \in 1..Len(ops) : Depth(ops, n) >= 0
            /\ Depth(ops, Len(ops)) = 0
            /\ InEffect(ops, off + 6, off + 7)
            /\ \A n \in segs : ~InEffect(ops, off + 6, n)

\* a document holding a flipped composed page and an unflipped one, both
\* painted with the gradient
WitnessC17 ==
    /\ \E k \in ComposedPositions :
          /\ DrawnFlipped(pages[k].contents.ops)
          /\ pages[k].contents.ops[5].op = "sh"
          /\ Len(pages[k].contents.ops) = 35
    /\ \E k \in ComposedPositions :
          /\ FlipCount(pages[k].contents.ops) = 0
          /\ pages[k].contents.ops[3].op = "sh"
          /\ Len(pages[k].contents.ops) = 32

----------------------------------------------------------------------------
\* the pages of the input at the 0-based indices S, in input order
PagesAt(S) == [k \in 1..Cardinality(S) |-> args.doc[SortedAsc(S)[k] + 1]]

\* the source pages the document holds, in document order
RECURSIVE OriginalIds(_)
OriginalIds(ps) ==
    IF ps = <<>> THEN <<>>
    ELSE (IF Head(ps).id # 0 THEN <<Head(ps).id>> ELSE <<>>) \o OriginalIds(Tail(ps))

\* C18: once the deletion step has run the document holds exactly the
\* input pages whose 0-based index is not in the delete list, in their
\* input order: an index listed twice deletes one page, an index below 0
\* or past the last page deletes none, and no deletion moves a page that
\* is still to be deleted.
TheoremC18 ==
    /\ (pc = "derive" \/ (pc = "raised" /\ err = ErrEmpty)) =>
          pages = PagesAt(RemainingIndices)
    /\ pc \notin {"open", "delete"} =>
          OriginalIds(pages) = [k \in 1..Cardinality(RemainingIndices) |->
                                  SortedAsc(RemainingIndices)[k] + 1]

\* a 2-page input after deleting index 1, listed twice between an index
\* below 0 and one past the end
WitnessC18 ==
    /\ pc = "derive"
    /\ args.delete_pages = <<-1, 1, MaxPages + 4, 1>>
    /\ Len(args.doc) = 2
    /\ pages = <<args.doc[1]>>

----------------------------------------------------------------------------
\* the loop steps of the run, in order
LoopSteps == SelectSeq(trail, LAMBDA x : x \in {"page", "blank_page"})

\* the operators of a page without one enclosing flip layer, if it has one
Unflipped(ops) ==
    IF DrawnFlipped(ops) THEN SubSeq(ops, 3, Len(ops) - 1) ELSE ops

\* the number of form invocations in a stream
DoCount(ops) == Cardinality({n \in 1..Len(ops) : ops[n].op = "Do"})

\* C19: with blank insertion requested the saved document has the blank
\* page at index 1: a white fill over the media rectangle (the size as
\* written with four decimals) and the crop marks, no form and no
\* resources of a source page, and the MediaBox, TrimBox and BleedBox of
\* the composed pages.  The first remaining source page is at index 0 and
\* the others follow the blank in their order.  The loop handles the blank
\* in its own branch and composes every source page once.  The blank is
\* wrapped in one flip layer when flip_even_pages is set and in none
\* otherwise, with its boxes as inserted; no other page is wrapped after
\* composition.  Without the request the document has no blank page.
TheoremC19 ==
    saved # <<>> =>
       IF args.insert_blank_after_cover
       THEN LET blank == saved[2]
                bleed == Pts(args.bleed_in)
                tw    == Pts(args.trim_width_in)
                th    == Pts(trim_height_in)
                mw    == RAdd(tw, RMul(Two, bleed))
                mh    == RAdd(th, RMul(Two, bleed))
                body  == Unflipped(blank.contents.ops)
            IN  /\ Len(saved) = Cardinality(RemainingIndices) + 1
                /\ OriginalIds(<<saved[1]>>) = <<SortedAsc(RemainingIndices)[1] + 1>>
                /\ OriginalIds(SubSeq(saved, 3, Len(saved)))
                      = [k \in 1..(Len(saved) - 2) |-> SortedAsc(RemainingIndices)[k + 1] + 1]
                /\ blank.id = 0
                /\ blank.resources = NoResources
                /\ blank.mediabox = Box(R0, R0, mw, mh)
                /\ blank.trimbox = Box(bleed, bleed, RAdd(bleed, tw), RAdd(bleed, th))
                /\ blank.bleedbox = Box(R0, R0, mw, mh)
                /\ blank.mediabox = saved[1].mediabox
                /\ blank.trimbox = saved[1].trimbox
                /\ blank.bleedbox = saved[1].bleedbox
                /\ SubSeq(body, 1, 4) = <<Op("q", <<>>), Op("rg", <<R1, R1, R1>>),
                                          Op("re f", <<R0, R0, Fmt4(mw), Fmt4(mh)>>),
                                          Op("Q", <<>>)>>
                /\ IsMarkLayer(SubSeq(body, 5, Len(body)))
                /\ DoCount(blank.contents.ops) = 0
                /\ DrawnFlipped(blank.contents.ops) <=> args.flip_even_pages
                /\ FlipCount(blank.contents.ops) = IF args.flip_even_pages THEN 1 ELSE 0
                /\ LoopSteps = [k \in 1..Len(saved) |->
                                   IF k = 2 THEN "blank_page" ELSE "page"]
                /\ pages_info[2].is_blank
                /\ \A k \in 1..Len(saved) : k # 2 =>
                      /\ ~pages_info[k].is_blank
                      /\ saved[k].resources.kind = "composed"
                      /\ DoCount(saved[k].contents.ops) = 1
                      /\ Len(Unflipped(saved[k].contents.ops)) = 32
                      /\ FlipCount(saved[k].contents.ops) <= 1
       ELSE /\ \A k \in 1..Len(saved) : saved[k].id # 0 /\ ~pages_info[k].is_blank
            /\ LoopSteps = [k \in 1..Len(saved) |-> "page"]

\* a saved 3-page document whose blank page, at index 1, is flipped
WitnessC19 ==
    /\ saved # <<>>
    /\ args.insert_blank_after_cover
    /\ args.flip_even_pages
    /\ Len(saved) = 3
    /\ saved[2].id = 0
    /\ DrawnFlipped(saved[2].contents.ops)
    /\ saved[3].id = 2

----------------------------------------------------------------------------
\* C20: the form of every composed page has the source page's MediaBox
\* [x0, y0, x1, y1] as its bounding box, whatever the page's rotation, the
\* translation by (-x0, -y0) as its matrix, the source page's content as
\* its data and the source page's resource table as its resources.
ClaimC20 ==
    \A k \in ComposedPositions :
        LET src  == SourceOf(pages[k])
            form == pages[k].resources.form
        IN  /\ form.bbox = src.mediabox
            /\ form.matrix = <<R1, R0, R0, R1, RNeg(src.mediabox[1]), RNeg(src.mediabox[2])>>
            /\ form.data = (IF src.contents.kind = "none" THEN EmptyText
                            ELSE ReadContents(src.contents))
            /\ form.resources = src.resources.id

----------------------------------------------------------------------------
\* the linear part a b c d of the product of the matrices m then n
LinearProduct(m, n) ==
    <<RAdd(RMul(m[1], n[1]), RMul(m[2], n[3])),
      RAdd(RMul(m[1], n[2]), RMul(m[2], n[4])),
      RAdd(RMul(m[3], n[1]), RMul(m[4], n[3])),
      RAdd(RMul(m[3], n[2]), RMul(m[4], n[4]))>>

\* the linear part is a uniform scale turned by the angle, in either sense
TurnedBy(lin, angle) ==
    CASE angle \in {90, 270} ->
            /\ lin[1] = R0 /\ lin[4] = R0
            /\ lin[2] # R0 /\ lin[3] = RNeg(lin[2])
      [] angle = 180 ->
            /\ lin[2] = R0 /\ lin[3] = R0
            /\ RLt(lin[1], R0) /\ lin[4] = lin[1]
      [] OTHER ->
            /\ lin[2] = R0 /\ lin[3] = R0
            /\ RLt(R0, lin[1]) /\ lin[4] = lin[1]

\* C21: a composed page has no Rotate entry, and for a source page with
\* Rotate 90, 180 or 270 the transforms under which its content is drawn
\* (the form's matrix, then the matrix set before the form is invoked)
\* turn the content by that angle.
ClaimC21 ==
    \A k \in ComposedPositions :
        LET src == SourceOf(pages[k])
            ops == pages[k].contents.ops
            do  == CHOOSE n \in 1..Len(ops) : ops[n].op = "Do"
        IN  /\ pages[k].rotate = None
            /\ Rotation(src) \in {90, 180, 270} =>
                  TurnedBy(LinearProduct(pages[k].resources.form.matrix, ops[do - 1].a),
                           Rotation(src))

----------------------------------------------------------------------------
(* The margin check in binary64.  compute_trim_height (src/app.py:142-156) *)
(* adds the top and bottom margins to the scaled height and process_page   *)
(* (src/app.py:169-188) subtracts them again; both work on Python floats.  *)
(* A float is held as m * 2^e with m odd (or m = 0, e = 0).  An operation  *)
(* is defined where its binary64 result is known without carrying out the  *)
(* rounding: the exact result is a float of at most 30 bits, or one        *)
(* operand of a sum lies below a quarter of the other's last place.  The   *)
(* inputs are chosen so that every operation is one of these.              *)

Bin(m, e) == [m |-> m, e |-> e]

RECURSIVE Pow2(_)
Pow2(n) == IF n = 0 THEN 1 ELSE 2 * Pow2(n - 1)

\* the number of bits of n >= 0
RECURSIVE BitLen(_)
BitLen(n) == IF n = 0 THEN 0 ELSE 1 + BitLen(n \div 2)

\* m * 2^e with the factors of two moved into the exponent
RECURSIVE FNorm(_, _)
FNorm(m, e) ==
    IF m = 0 THEN Bin(0, 0)
    ELSE IF m % 2 = 0 THEN FNorm(m \div 2, e + 1)
    ELSE Bin(m, e)

FInt(n) == FNorm(n, 0)

\* the position above the leading bit of x # 0
FTop(x) == x.e + BitLen(Abs(x.m))

\* x + y: exact when the sum fits, the larger operand when the smaller one
\* is below a quarter of its last place (53 significant bits)
FAdd(x, y) ==
    IF x.m = 0 THEN y
    ELSE IF y.m = 0 THEN x
    ELSE CASE /\ (x.e - Min(x.e, y.e)) + BitLen(Abs(x.m)) <= 30
              /\ (y.e - Min(x.e, y.e)) + BitLen(Abs(y.m)) <= 30
              -> FNorm(x.m * Pow2(x.e - Min(x.e, y.e)) + y.m * Pow2(y.e - Min(x.e, y.e)),
                       Min(x.e, y.e))
           [] FTop(x) - FTop(y) >= 55 -> x
           [] FTop(y) - FTop(x) >= 55 -> y

FNeg(x) == Bin(-x.m, x.e)

FSub(x, y) == FAdd(x, FNeg(y))

\* x * y, the product of the mantissas being short
FMul(x, y) ==
    CASE BitLen(Abs(x.m)) + BitLen(Abs(y.m)) <= 30 -> FNorm(x.m * y.m, x.e + y.e)

\* x / y for y > 0, the quotient being a float of the same form
FDiv(x, y) ==
    CASE y.m > 0 /\ Abs(x.m) % y.m = 0 ->
            FNorm((IF x.m < 0 THEN -1 ELSE 1) * (Abs(x.m) \div y.m), x.e - y.e)

\* x <= 0
FLe0(x) == x.m <= 0

FPts(inches) == FMul(inches, FInt(PTS_PER_INCH))

\* trim_h_pt of compute_trim_height (src/app.py:150-155)
TrimHPt64(orig_w, orig_h, safe_w, mt, mb) ==
    FAdd(FAdd(FMul(orig_h, FDiv(safe_w, orig_w)), mt), mb)

\* compute_trim_height (src/app.py:142-156) on floats
compute_trim_height_64(orig_w, orig_h, trim_width_in, margins) ==
    FDiv(TrimHPt64(orig_w, orig_h,
                   FSub(FSub(FPts(trim_width_in), FPts(margins.left)), FPts(margins.right)),
                   FPts(margins.top), FPts(margins.bottom)),
         FInt(PTS_PER_INCH))

\* safe_w, safe_h and the test of src/app.py:185-188
SafeArea64(safe_w, safe_h) ==
    [safe_w |-> safe_w, safe_h |-> safe_h, raises |-> FLe0(safe_w) \/ FLe0(safe_h)]

\* process_page up to its raise (src/app.py:169-188) on floats
process_page_check_64(trim_width_in, trim_h_in, margins) ==
    SafeArea64(FSub(FSub(FPts(trim_width_in), FPts(margins.left)), FPts(margins.right)),
               FSub(FSub(FPts(trim_h_in), FPts(margins.top)), FPts(margins.bottom)))

\* the exponent of the large margin, 2^60 inches
BigExp == 60

\* page sizes 576 x 324, 512 x 512 and 1024 x 256
Sizes64 == { <<FInt(576), FInt(324)>>, <<FInt(512), FInt(512)>>, <<FInt(1024), FInt(256)>> }

\* trim widths 10, 5 and 1/2 inch
Widths64 == { FInt(10), FInt(5), Bin(1, -1) }

\* left and right margins 0, 1/4 and 5 inches
SideMargins64 == { FInt(0), Bin(1, -2), FInt(5) }

\* top and bottom margins 0, 1/2 and 2^60 inches
EndMargins64 == { FInt(0), Bin(1, -1), Bin(1, BigExp) }

Calls64 ==
    { [orig_w |-> sz[1], orig_h |-> sz[2], trim_width_in |-> tw,
       margins |-> Margins(l, r, t, b)] :
      sz \in Sizes64, tw \in Widths64, l \in SideMargins64, r \in SideMargins64,
      t \in EndMargins64, b \in EndMargins64 }

Init64 ==
    /\ pc = "done"
    /\ args = [doc |-> <<>>, trim_width_in |-> R0, bleed_in |-> R0,
               margins |-> Margins(R0, R0, R0, R0), bg_style |-> "auto",
               insert_blank_after_cover |-> FALSE, delete_pages |-> <<>>,
               flip_even_pages |-> FALSE]
    /\ pages = <<>>
    /\ trim_height_in = NoValue
    /\ i = 0
    /\ pages_info = <<>>
    /\ saved = <<>>
    /\ trail = <<>>
    /\ verification = <<>>
    /\ err = "none"
    /\ bgPage = NoValue
    /\ bgResult = NoValue
    /\ markBox = NoValue
    /\ markStream = NoValue
    /\ f64Call \in Calls64
    /\ f64Height = NoValue
    /\ f64Safe = NoValue

\* trim_height_in = compute_trim_height(...) (src/app.py:473)
Derive64 ==
    /\ f64Call # NoValue
    /\ f64Height = NoValue
    /\ f64Height' = compute_trim_height_64(f64Call.orig_w, f64Call.orig_h,
                                           f64Call.trim_width_in, f64Call.margins)
    /\ UNCHANGED <<f64Call, f64Safe, runVars, bgVars, markVars>>

\* process_page on the first page, up to its raise
Check64 ==
    /\ f64Height # NoValue
    /\ f64Safe = NoValue
    /\ f64Safe' = process_page_check_64(f64Call.trim_width_in, f64Height, f64Call.margins)
    /\ UNCHANGED <<f64Call, f64Height, runVars, bgVars, markVars>>

Next64 == Derive64 \/ Check64

Spec64 == Init64 /\ [][Next64]_vars

----------------------------------------------------------------------------
\* trimWidth - marginLeft - marginRight, in points
SafeWidth ==
    RSub(RSub(Pts(args.trim_width_in), Pts(args.margins.left)), Pts(args.margins.right))

\* a top or bottom margin is set
HasVerticalMargin == args.margins.top # R0 \/ args.margins.bottom # R0

\* the steps from which a run can still leave with the margins error
BeforeFirstPage ==
    \/ pc \in {"open", "delete", "derive", "blank"}
    \/ pc = "compose" /\ i = 0

\* With the arithmetic carried out exactly, a run on pages of positive size
\* ends with the margins error only when trimWidth - marginLeft -
\* marginRight <= 0, and with such a width no run gets past the composition
\* of page index 0 other than by that error.  When the error is raised the
\* loop has handled no page: the one step taken is the composition of index
\* 0, every source page in the document still is as it was read, no page
\* result exists and nothing is saved.
MarginsErrorExact ==
    /\ \A k \in 1..Len(args.doc) :
          /\ RLt(args.doc[k].mediabox[1], args.doc[k].mediabox[3])
          /\ RLt(args.doc[k].mediabox[2], args.doc[k].mediabox[4])
    /\ err = ErrMargins <=> (pc = "raised" /\ err # ErrEmpty)
    /\ err = ErrMargins => RLe(SafeWidth, R0)
    /\ RLe(SafeWidth, R0) =>
          \/ BeforeFirstPage
          \/ pc = "raised" /\ err \in {ErrEmpty, ErrMargins}
    /\ RLt(R0, SafeWidth) => err # ErrMargins
    /\ err = ErrMargins =>
          /\ i = 0
          /\ LoopSteps = <<"page">>
          /\ pages[1].id # 0
          /\ \A k \in 1..Len(pages) : pages[k].id # 0 => pages[k] = SourceOf(pages[k])
          /\ OriginalIds(pages) = [k \in 1..Cardinality(RemainingIndices) |->
                                     SortedAsc(RemainingIndices)[k] + 1]
          /\ pages_info = <<>>
          /\ saved = <<>>
          /\ verification = <<>>

\* a run with top and bottom margins set and a blank page inserted that
\* ended with the margins error
MarginsErrorRaised ==
    /\ pc = "raised"
    /\ err = ErrMargins
    /\ HasVerticalMargin
    /\ args.insert_blank_after_cover
    /\ Len(pages) = 3

\* trimWidth - marginLeft - marginRight of the call, in inches
SafeWidthIn64 ==
    FSub(FSub(f64Call.trim_width_in, f64Call.margins.left), f64Call.margins.right)

\* C22: for a page of positive width and height the margins error is
\* raised if and only if trimWidth - marginLeft - marginRight <= 0; the
\* top and bottom margins never cause it.
ClaimC22 ==
    f64Safe # NoValue => (f64Safe.raises <=> FLe0(SafeWidthIn64))

----------------------------------------------------------------------------
\* the distinct indices of the delete list that name a page of the input
InRangeDeletes == {x \in Range(args.delete_pages) : 0 <= x /\ x < Len(args.doc)}

\* input page count - distinct in-range delete indices + 1 for the blank
ExpectedPages ==
    Len(args.doc) - Cardinality(InRangeDeletes)
        + (IF args.insert_blank_after_cover THEN 1 ELSE 0)

\* C23: after a successful run the page results and the verification list
\* each have one entry per page of the saved document, numbered 1..n in
\* page order, with n = input pages - distinct in-range delete indices + 1
\* if the blank was requested; the entry of page 2 and no other is marked
\* is_blank when the blank was requested, and no entry is otherwise.
TheoremC23 ==
    pc = "done" =>
        /\ Len(saved) = ExpectedPages
        /\ Len(pages_info) = ExpectedPages
        /\ Len(verification) = ExpectedPages
        /\ \A k \in 1..ExpectedPages :
              /\ pages_info[k].page = k
              /\ verification[k].page = k
              /\ pages_info[k].is_blank <=> (args.insert_blank_after_cover /\ k = 2)
              /\ pages_info[k].is_blank <=> saved[k].id = 0
        /\ Cardinality({k \in 1..Len(pages_info) : pages_info[k].is_blank})
              = IF args.insert_blank_after_cover THEN 1 ELSE 0

\* a successful run on a 2-page input with index 1 listed twice among
\* out-of-range indices and the blank requested: 2 - 1 + 1 entries
WitnessC23 ==
    /\ pc = "done"
    /\ Len(args.doc) = 2
    /\ args.delete_pages = <<-1, 1, MaxPages + 4, 1>>
    /\ args.insert_blank_after_cover
    /\ Len(pages_info) = 2
    /\ Len(verification) = 2
    /\ pages_info[2].is_blank

====
